---------------------------- MODULE Spec2Model ----------------------------
(***************************************************************************)
(* prompt-sentinel: the concurrent execution engine of src/src/runner.rs.  *)
(*                                                                         *)
(* run_all_tests spawns one task per case of the tests the filter selects, *)
(* every task takes a permit of a counting semaphore, runs                 *)
(* complete_with_retry (timeout, textual error classification, bounded     *)
(* exponential backoff), builds its CaseResult and drops the permit; the   *)
(* caller then awaits the join handles in submission order.                *)
(*                                                                         *)
(* Strings are sequences of one-character strings, so that the substring   *)
(* tests of the code (str::contains) are computed, not assumed.            *)
(***************************************************************************)
EXTENDS Integers, Sequences, FiniteSets, TLC

(***************************************************************************)
(* Bounds of the model.                                                    *)
(***************************************************************************)
\* most cases the first test of a configuration holds (the second holds one)
MaxCasesAB == 1
\* largest concurrency limit tried
MaxConcurrency == 2
\* longest list of results the aggregates are computed on
MaxResults == 10

(***************************************************************************)
(* Program constants.                                                      *)
(***************************************************************************)
MAX_RETRIES == 3
BASE_RETRY_DELAY_MS == 500
\* the CLI's default --timeout, the timeout_ms handed to run_all_tests
DEFAULT_TIMEOUT_MS == 30000

(***************************************************************************)
(* Strings.                                                                *)
(***************************************************************************)
\* str::contains: sub occurs in s as a contiguous run of characters
StrContains(s, sub) ==
    \E k \in 0..(Len(s) - Len(sub)) : SubSeq(s, k + 1, k + Len(sub)) = sub

Digit(d) == <<"0", "1", "2", "3", "4", "5", "6", "7", "8", "9">>[d + 1]

RECURSIVE ToDecimal(_)
\* Display of an unsigned integer
ToDecimal(n) == IF n < 10 THEN <<Digit(n)>>
                ELSE ToDecimal(n \div 10) \o <<Digit(n % 10)>>

\* char::to_lowercase on the letters the model's texts use
LowerChar(c) ==
    CASE c = "H" -> "h"
      [] c = "O" -> "o"
      [] c = "K" -> "k"
      [] OTHER -> c

\* faulty variant: the case is kept
ToLowercaseKeepsCase(s) == s

\* str::to_lowercase
ToLowercase(s) == [k \in 1..Len(s) |-> LowerChar(s[k])]

\* the bytes of a character in UTF-8
Utf8Len(c) == IF c = "é" THEN 2 ELSE 1

RECURSIVE ByteLen(_)
\* str::len: the length in bytes
ByteLen(s) == IF s = <<>> THEN 0 ELSE Utf8Len(Head(s)) + ByteLen(Tail(s))

\* Option<String>
None == [some |-> FALSE, val |-> <<>>]
Some(v) == [some |-> TRUE, val |-> v]

(***************************************************************************)
(* The completion capability: what one call of provider.complete can give. *)
(***************************************************************************)
\* http::StatusCode's Display: the code and its canonical reason
StatusText(status) ==
    CASE status = 429 -> <<"4", "2", "9", " ", "T", "o", "o", " ", "M", "a", "n", "y", " ", "R", "e", "q", "u", "e", "s", "t", "s">>
      [] status = 503 -> <<"5", "0", "3", " ", "S", "e", "r", "v", "i", "c", "e", " ", "U", "n", "a", "v", "a", "i", "l", "a", "b", "l", "e">>
      [] status = 400 -> <<"4", "0", "0", " ", "B", "a", "d", " ", "R", "e", "q", "u", "e", "s", "t">>
      [] status = 401 -> <<"4", "0", "1", " ", "U", "n", "a", "u", "t", "h", "o", "r", "i", "z", "e", "d">>

BodyRateLimited == <<"r", "a", "t", "e", " ", "l", "i", "m", "i", "t", "e", "d">>
BodyBadPrompt == <<"b", "a", "d", " ", "p", "r", "o", "m", "p", "t">>
BodyLimit500 == <<"l", "i", "m", "i", "t", " ", "i", "s", " ", "5", "0", "0">>
BodyOverloaded == <<"o", "v", "e", "r", "l", "o", "a", "d", "e", "d">>

\* the non-success HTTP responses a service may give
ErrorResponses ==
    { [status |-> 429, body |-> BodyRateLimited],
      [status |-> 503, body |-> BodyOverloaded],
      [status |-> 400, body |-> BodyBadPrompt],
      [status |-> 400, body |-> BodyLimit500],
      [status |-> 401, body |-> BodyBadPrompt] }

\* a service that only rate-limits or rejects the prompt
PlainResponses ==
    { [status |-> 429, body |-> BodyRateLimited],
      [status |-> 400, body |-> BodyBadPrompt] }

\* the texts a successful completion is let to carry
OutputOK == <<"O", "K">>
OutputNo == <<"n", "o">>
Outputs == {OutputOK, OutputNo}

\* OpenAiProvider::complete on a non-success status:
\* anyhow!("OpenAI API error ({}): {}", status, text)
ApiErrorMsg(resp) ==
    <<"O", "p", "e", "n", "A", "I", " ", "A", "P", "I", " ", "e", "r", "r", "o", "r", " ", "(">>
    \o StatusText(resp.status) \o <<")", ":", " ">> \o resp.body

\* faulty variant: a timeout text none of the transient markers occurs in
TimeoutMsgDeadline(timeout_ms) ==
    <<"d", "e", "a", "d", "l", "i", "n", "e", " ">> \o ToDecimal(timeout_ms) \o <<"m", "s">>

\* anyhow!("request timed out after {}ms", timeout_ms)
TimeoutMsg(timeout_ms) ==
    <<"r", "e", "q", "u", "e", "s", "t", " ", "t", "i", "m", "e", "d", " ", "o", "u", "t", " ", "a", "f", "t", "e", "r", " ">>
    \o ToDecimal(timeout_ms) \o <<"m", "s">>

(***************************************************************************)
(* complete_with_retry: classification, retry budget, backoff.             *)
(***************************************************************************)
\* let is_transient = err_msg.contains("429") || ... || contains("connection")
is_transient(err_msg) ==
    \/ StrContains(err_msg, <<"4", "2", "9">>)
    \/ StrContains(err_msg, <<"5", "0", "0">>)
    \/ StrContains(err_msg, <<"5", "0", "2">>)
    \/ StrContains(err_msg, <<"5", "0", "3">>)
    \/ StrContains(err_msg, <<"t", "i", "m", "e", "o", "u", "t">>)
    \/ StrContains(err_msg, <<"t", "i", "m", "e", "d", " ", "o", "u", "t">>)
    \/ StrContains(err_msg, <<"c", "o", "n", "n", "e", "c", "t", "i", "o", "n">>)

\* every e.to_string() an attempt can give here
ErrorMsgs == {ApiErrorMsg(resp) : resp \in ErrorResponses} \cup {TimeoutMsg(DEFAULT_TIMEOUT_MS)}

\* is_transient, tabulated once over the messages
IsTransient == [err_msg \in ErrorMsgs |-> is_transient(err_msg)]

\* faulty variant: the budget test is off by one
ShouldRetryOffByOne(err_msg, retries) == IsTransient[err_msg] /\ retries <= MAX_RETRIES

\* faulty variant: every error is retried, whatever its class
ShouldRetryAnyError(err_msg, retries) == retries < MAX_RETRIES

\* if is_transient && retries < MAX_RETRIES
ShouldRetry(err_msg, retries) == IsTransient[err_msg] /\ retries < MAX_RETRIES

RECURSIVE Pow2(_)
Pow2(n) == IF n = 0 THEN 1 ELSE 2 * Pow2(n - 1)

\* faulty variant: the delay grows linearly
BackoffDelayLinear(retries) == BASE_RETRY_DELAY_MS * retries

\* let delay = BASE_RETRY_DELAY_MS * 2u64.pow(retries - 1), retries already
\* incremented
BackoffDelay(retries) == BASE_RETRY_DELAY_MS * Pow2(retries - 1)

(***************************************************************************)
(* Assertions (config.rs, assertions.rs): the kinds the cases here use.    *)
(***************************************************************************)
\* the patterns here are written with literal letters, "." for any
\* character but a line feed, "^" in front and "$" at the end for the two
\* ends of the text, and "(" for a group
RegexLiterals == {"O", "K", "o", "k", "n", "a", "b"}

\* regex::Regex::new(pattern).is_ok(), for these patterns: "^" only in front,
\* "$" only at the end, and no group left open
RegexCompiles(pattern) ==
    \A i \in 1..Len(pattern) :
        \/ pattern[i] \in RegexLiterals \cup {"."}
        \/ pattern[i] = "^" /\ i = 1
        \/ pattern[i] = "$" /\ i = Len(pattern)

\* AssertionKind::from_raw: Ok for a known kind, Err (dropped by the
\* filter_map of run_all_tests) for any other
from_raw_ok(a) ==
    CASE a.kind \in {"contains", "not-contains"} -> a.yaml = "str"
      [] a.kind \in {"latency_max", "min_length", "max_length"} -> a.yaml = "num"
      [] a.kind \in {"snapshot", "json_valid"} -> TRUE
      [] a.kind = "regex" -> a.yaml = "str" /\ RegexCompiles(a.value)
      [] OTHER -> FALSE

\* an Assertion { kind, value } of the config: value is a serde_yaml::Value,
\* and yaml says which it is, a string ("str"), a number ("num") or none
RawAssertion(kind, value, yaml) == [kind |-> kind, value |-> value, yaml |-> yaml]

\* an assertion whose value has the type its kind asks for
Raw(kind, value) ==
    RawAssertion(kind, value,
        IF kind \in {"contains", "not-contains", "regex"} THEN "str"
        ELSE IF kind \in {"latency_max", "min_length", "max_length"} THEN "num"
        ELSE "null")

\* a value that is a template placeholder: "{{ms}}"
Placeholder == <<"{", "{", "m", "s", "}", "}">>

(***************************************************************************)
(* Token usage and cost (providers.rs).  Rates are in cents per million    *)
(* tokens and costs in 10^-8 USD, so that the f64 products of the source   *)
(* are exact integers here.                                                *)
(***************************************************************************)
\* TokenUsage::default()
ZeroUsage == [prompt_tokens |-> 0, completion_tokens |-> 0, total_tokens |-> 0]

\* the usage object of the response that carries the given text
UsageOf(output) ==
    IF output = OutputOK
    THEN [prompt_tokens |-> 15, completion_tokens |-> 25, total_tokens |-> 40]
    ELSE [prompt_tokens |-> 10, completion_tokens |-> 20, total_tokens |-> 30]

\* fn cost_per_million_tokens (the models the configurations name)
cost_per_million_tokens(model) ==
    CASE model = "gpt-4o" -> [input |-> 250, output |-> 1000]
      [] model = "gpt-4o-mini" -> [input |-> 15, output |-> 60]
      [] OTHER -> [input |-> 0, output |-> 0]

\* fn calculate_cost
calculate_cost(model, usage) ==
    LET rate == cost_per_million_tokens(model)
    IN  usage.prompt_tokens * rate.input + usage.completion_tokens * rate.output

(***************************************************************************)
(* Configurations: two tests, "ab" and "b", with some cases each.          *)
(***************************************************************************)
TestIdAB == <<"a", "b">>
TestIdB == <<"b">>
TestIdS == <<"s">>
TestIdT == <<"t">>
TestIdL == <<"l">>
TextO == <<"o">>
TextN == <<"n">>

\* fn default_model
default_model == "gpt-4o-mini"

\* TestDef.model, an Option: test "ab" leaves it out, test "b" names one
TestModel(id) == IF id = TestIdAB THEN None ELSE Some("gpt-4o")

\* the assertions of the cases of a test: every case of test "ab" expects an
\* "o" and no "n" in the output, the cases of test "s" compare the output
\* with their snapshot, the cases of test "t" bound the latency by a
\* placeholder left in an inline case and then expect an "o", the cases of
\* test "l" bound the latency by the base delay, the cases of test "b" assert
\* nothing
CaseAssertions(id) ==
    IF id = TestIdAB
    THEN <<Raw("contains", TextO), Raw("not-contains", TextN)>>
    ELSE IF id = TestIdS
    THEN <<Raw("snapshot", <<>>)>>
    ELSE IF id = TestIdT
    THEN <<RawAssertion("latency_max", Placeholder, "str"), Raw("contains", TextO)>>
    ELSE IF id = TestIdL
    THEN <<Raw("latency_max", BASE_RETRY_DELAY_MS)>>
    ELSE <<>>

\* Config.tests: a Vec<TestDef>, each with its id, its model and its
\* Vec<TestCase>
MakeTest(id, n) ==
    [id |-> id,
     model |-> TestModel(id),
     cases |-> [k \in 1..n |-> [assertions |-> CaseAssertions(id)]]]

Configs == { <<MakeTest(TestIdAB, n), MakeTest(TestIdB, 1)>> : n \in 0..MaxCasesAB }

\* the --filter patterns tried: none, one matching "ab" only, one matching no id
Filters == {None, Some(<<"a">>), Some(<<"c">>)}

\* config.tests.iter().filter(|t| match filter { Some(p) => t.id.contains(p),
\* None => true })
FilterMatches(t, flt) == IF flt.some THEN StrContains(t.id, flt.val) ELSE TRUE

SelectedTests(cfg, flt) == SelectSeq(cfg, LAMBDA t : FilterMatches(t, flt))

\* faulty variant: the cases are numbered from 1
TestSubmissionsFromOne(t) ==
    [k \in 1..Len(t.cases) |->
        [test_id |-> t.id,
         ci |-> k,
         model |-> IF t.model.some THEN t.model.val ELSE default_model,
         assertions |-> t.cases[k].assertions]]

\* the cases of one test in order, each with what its task captures
TestSubmissions(t) ==
    [k \in 1..Len(t.cases) |->
        [test_id |-> t.id,
         ci |-> k - 1,
         model |-> IF t.model.some THEN t.model.val ELSE default_model,
         assertions |-> t.cases[k].assertions]]

RECURSIVE Submissions(_)
\* for test in &tests { for (ci, case) in test.cases.iter().enumerate() {..} }
Submissions(ts) ==
    IF ts = <<>> THEN <<>>
    ELSE TestSubmissions(Head(ts)) \o Submissions(Tail(ts))

(***************************************************************************)
(* The snapshot store (assertions.rs, check_snapshot).  The file system is *)
(* a record fs: whether the snapshot directory exists, and per key the     *)
(* content of its .snap file, if there is one.                             *)
(***************************************************************************)
\* char::is_whitespace on the characters the model's texts use
IsWhitespace(c) == c \in {" ", "\n", "\t", "\r"}

RECURSIVE TrimStart(_)
TrimStart(s) ==
    IF s # <<>> /\ IsWhitespace(Head(s)) THEN TrimStart(Tail(s)) ELSE s

RECURSIVE TrimEnd(_)
TrimEnd(s) ==
    IF s # <<>> /\ IsWhitespace(s[Len(s)]) THEN TrimEnd(SubSeq(s, 1, Len(s) - 1)) ELSE s

\* str::trim
Trim(s) == TrimEnd(TrimStart(s))

\* faulty variant: the position of the case is left out of its key
SnapshotKeyWithoutIndex(test_id, ci) == test_id \o <<"_", "c", "a", "s", "e">> \o ToDecimal(0)

\* let snapshot_key = format!("{}_case{}", test_id, ci)
SnapshotKey(test_id, ci) == test_id \o <<"_", "c", "a", "s", "e">> \o ToDecimal(ci)

\* the keys of the first cases of the two tests
SnapKeys == {SnapshotKey(TestIdAB, 0), SnapshotKey(TestIdB, 0)}

\* the outputs checked against snapshots: "a", the same with whitespace
\* around it, another text, and a blank one
SnapOutputs == {<<"a">>, <<"a", " ">>, <<"\n", "a">>, <<"b">>, <<" ">>}

\* the files the snapshot directory can come to hold: those keys and the keys
\* of the cases of test "s"
StoreKeys == SnapKeys \cup {SnapshotKey(TestIdS, 0), SnapshotKey(TestIdS, 1)}

\* no snapshot directory yet
EmptyFs == [dir |-> FALSE, files |-> [k \in StoreKeys |-> None]]

\* what the file system does to the call: nothing, or it fails
\* create_dir_all, fs::write (before anything is written) or read_to_string
IoFaults == {"none", "create_dir", "write", "read"}

\* Display of the io::Error of a failed operation
IoErrorText(fault) ==
    IF fault = "read"
    THEN "Input/output error (os error 5)"
    ELSE "Permission denied (os error 13)"

\* an AssertionResult, with the file system the call leaves behind
SnapResult(passed, detail, fs) ==
    [passed |-> passed, label |-> "snapshot", detail |-> detail, fs |-> fs]

\* faulty variant: a failed write is not noticed
WriteRecordIgnoresError(fs, output, key, fault, detail) ==
    IF fault = "create_dir"
    THEN SnapResult(FALSE, "failed to create snapshot dir: " \o IoErrorText(fault), fs)
    ELSE IF fault = "write"
    THEN SnapResult(TRUE, detail, [fs EXCEPT !.dir = TRUE])
    ELSE SnapResult(TRUE, detail, [dir |-> TRUE, files |-> [fs.files EXCEPT ![key] = Some(output)]])

\* faulty variant: the record is written from the trimmed output
WriteRecordTrimmed(fs, output, key, fault, detail) ==
    IF fault = "create_dir"
    THEN SnapResult(FALSE, "failed to create snapshot dir: " \o IoErrorText(fault), fs)
    ELSE IF fault = "write"
    THEN SnapResult(FALSE, "failed to write snapshot: " \o IoErrorText(fault), [fs EXCEPT !.dir = TRUE])
    ELSE SnapResult(TRUE, detail, [dir |-> TRUE, files |-> [fs.files EXCEPT ![key] = Some(Trim(output))]])

\* faulty variant: the directory is made and success reported, the file is
\* not written
WriteRecordDirOnly(fs, output, key, fault, detail) ==
    IF fault = "create_dir"
    THEN SnapResult(FALSE, "failed to create snapshot dir: " \o IoErrorText(fault), fs)
    ELSE IF fault = "write"
    THEN SnapResult(FALSE, "failed to write snapshot: " \o IoErrorText(fault), [fs EXCEPT !.dir = TRUE])
    ELSE SnapResult(TRUE, detail, [fs EXCEPT !.dir = TRUE])

\* create_dir_all(snapshot_dir), then fs::write(&snap_file, output): the two
\* blocks that write a record, under update and on the first run
WriteRecord(fs, output, key, fault, detail) ==
    IF fault = "create_dir"
    THEN SnapResult(FALSE, "failed to create snapshot dir: " \o IoErrorText(fault), fs)
    ELSE IF fault = "write"
    THEN SnapResult(FALSE, "failed to write snapshot: " \o IoErrorText(fault), [fs EXCEPT !.dir = TRUE])
    ELSE SnapResult(TRUE, detail, [dir |-> TRUE, files |-> [fs.files EXCEPT ![key] = Some(output)]])

\* faulty variant: the stored and the current text are compared as they are
CompareRecordUntrimmed(fs, output, key, fault) ==
    IF fault = "read"
    THEN SnapResult(FALSE, "failed to read snapshot: " \o IoErrorText(fault), fs)
    ELSE IF fs.files[key].val = output
    THEN SnapResult(TRUE, "matches saved snapshot", fs)
    ELSE SnapResult(FALSE, "differs from snapshot", fs)

\* faulty variant: an output that differs is accepted as the new record
CompareRecordAcceptsNew(fs, output, key, fault) ==
    IF fault = "read"
    THEN SnapResult(FALSE, "failed to read snapshot: " \o IoErrorText(fault), fs)
    ELSE IF Trim(fs.files[key].val) = Trim(output)
    THEN SnapResult(TRUE, "matches saved snapshot", fs)
    ELSE SnapResult(FALSE, "differs from snapshot",
                    [fs EXCEPT !.files[key] = Some(output)])

\* read_to_string(&snap_file), then the comparison of both texts trimmed; the
\* detail of a difference goes on with the diff summary
CompareRecord(fs, output, key, fault) ==
    IF fault = "read"
    THEN SnapResult(FALSE, "failed to read snapshot: " \o IoErrorText(fault), fs)
    ELSE IF Trim(fs.files[key].val) = Trim(output)
    THEN SnapResult(TRUE, "matches saved snapshot", fs)
    ELSE SnapResult(FALSE, "differs from snapshot", fs)

\* the byte length lines are cut to in a diff summary
TruncateMax == 40

\* a line without the carriage return that ends it
StripCr(line) ==
    IF line # <<>> /\ line[Len(line)] = "\r" THEN SubSeq(line, 1, Len(line) - 1) ELSE line

RECURSIVE Lines(_)
\* str::lines: the text split at "\n" or "\r\n", the last line's ending
\* being optional
Lines(s) ==
    IF s = <<>> THEN <<>>
    ELSE LET ends == {i \in 1..Len(s) : s[i] = "\n"}
         IN  IF ends = {} THEN <<s>>
             ELSE LET n == CHOOSE i \in ends : \A j \in ends : i <= j
                  IN  <<StripCr(SubSeq(s, 1, n - 1))>> \o Lines(SubSeq(s, n + 1, Len(s)))

\* a String a function returned, or the panic it ended in
Returned(text) == [panicked |-> FALSE, text |-> text]
Panicked == [panicked |-> TRUE, text |-> <<>>]

\* the character U+2026, horizontal ellipsis
Ellipsis == "..."

\* str::is_char_boundary(n), for 0 < n < s.len()
IsCharBoundary(s, n) == \E k \in 0..Len(s) : ByteLen(SubSeq(s, 1, k)) = n

\* fn truncate: a line of more than max bytes is cut after max bytes and the
\* ellipsis put behind; &s[..max] panics when byte max is inside a character
truncate(s, max) ==
    IF ByteLen(s) > max
    THEN IF IsCharBoundary(s, max)
         THEN LET k == CHOOSE k \in 0..Len(s) : ByteLen(SubSeq(s, 1, k)) = max
              IN  Returned(SubSeq(s, 1, k) \o <<Ellipsis>>)
         ELSE Panicked
    ELSE Returned(s)

\* format!("First diff at line {}: expected '{}', got '{}'", ..)
FirstDiffText(line, expected, actual) ==
    <<"F", "i", "r", "s", "t", " ", "d", "i", "f", "f", " ", "a", "t", " ", "l", "i", "n", "e", " ">>
    \o ToDecimal(line)
    \o <<":", " ", "e", "x", "p", "e", "c", "t", "e", "d", " ", "'">> \o expected
    \o <<"'", ",", " ", "g", "o", "t", " ", "'">> \o actual \o <<"'">>

\* format!("Line count differs: snapshot has {}, output has {}", ..)
LineCountText(snapshot, output) ==
    <<"L", "i", "n", "e", " ", "c", "o", "u", "n", "t", " ", "d", "i", "f", "f", "e", "r", "s", ":", " ",
      "s", "n", "a", "p", "s", "h", "o", "t", " ", "h", "a", "s", " ">>
    \o ToDecimal(snapshot)
    \o <<",", " ", "o", "u", "t", "p", "u", "t", " ", "h", "a", "s", " ">> \o ToDecimal(output)

ContentDiffersText ==
    <<"C", "o", "n", "t", "e", "n", "t", " ", "d", "i", "f", "f", "e", "r", "s">>

\* fn diff_summary: the first pair of lines that differ, else the two line
\* counts if they differ, else "Content differs"
diff_summary(expected, actual) ==
    LET exp_lines == Lines(expected)
        act_lines == Lines(actual)
        common == IF Len(exp_lines) < Len(act_lines) THEN Len(exp_lines) ELSE Len(act_lines)
        differing == {i \in 1..common : exp_lines[i] # act_lines[i]}
    IN  IF differing # {}
        THEN LET i == CHOOSE i \in differing : \A j \in differing : i <= j
                 e == truncate(exp_lines[i], TruncateMax)
                 a == truncate(act_lines[i], TruncateMax)
             IN  IF e.panicked \/ a.panicked THEN Panicked
                 ELSE Returned(FirstDiffText(i, e.text, a.text))
        ELSE IF Len(exp_lines) # Len(act_lines)
        THEN Returned(LineCountText(Len(exp_lines), Len(act_lines)))
        ELSE Returned(ContentDiffersText)

\* the end of check_snapshot: both texts trimmed and compared, and the
\* detail of a difference: format!("differs from snapshot. {}. Run with
\* --update-snapshots to accept.", diff)
CompareTexts(existing, output) ==
    LET normalized_existing == Trim(existing)
        normalized_output == Trim(output)
        diff == diff_summary(normalized_existing, normalized_output)
    IN  [expected |-> normalized_existing,
         actual |-> normalized_output,
         passed |-> normalized_output = normalized_existing,
         panicked |-> normalized_output # normalized_existing /\ diff.panicked,
         diff |-> IF normalized_output = normalized_existing THEN <<>> ELSE diff.text]

\* faulty variant: under update, a record that already matches is left as it
\* is and reported as matching
check_snapshotKeepsEqual(fs, output, key, update, fault) ==
    IF update /\ fs.files[key].some /\ Trim(fs.files[key].val) = Trim(output)
    THEN SnapResult(TRUE, "matches saved snapshot", fs)
    ELSE IF update
    THEN WriteRecord(fs, output, key, fault, "updated")
    ELSE IF ~fs.files[key].some
    THEN WriteRecord(fs, output, key, fault, "created (first run)")
    ELSE CompareRecord(fs, output, key, fault)

\* fn check_snapshot
check_snapshot(fs, output, key, update, fault) ==
    IF update
    THEN WriteRecord(fs, output, key, fault, "updated")
    ELSE IF ~fs.files[key].some
    THEN WriteRecord(fs, output, key, fault, "created (first run)")
    ELSE CompareRecord(fs, output, key, fault)

\* the I/O operations a call makes, hence the failures it can meet
FaultsOf(fs, key, update) ==
    IF update \/ ~fs.files[key].some
    THEN {"none", "create_dir", "write"}
    ELSE {"none", "read"}

(***************************************************************************)
(* The assertion evaluator (assertions.rs, check_assertion).               *)
(***************************************************************************)
\* faulty variant: a check that is not a snapshot check creates the
\* snapshot directory
PlainResultCreatesDir(passed, label, detail, fs) ==
    [passed |-> passed, label |-> label, detail |-> detail, fs |-> [fs EXCEPT !.dir = TRUE]]

\* an AssertionResult of a check that leaves the file system alone
PlainResult(passed, label, detail, fs) ==
    [passed |-> passed, label |-> label, detail |-> detail, fs |-> fs]

\* faulty variant: a latency equal to the bound fails
WithinLatencyStrict(latency_ms, max_ms) == latency_ms < max_ms

\* AssertionKind::LatencyMax: let passed = latency_ms <= *max_ms
WithinLatency(latency_ms, max_ms) == latency_ms <= max_ms

\* Regex::is_match for a compiled pattern: the pattern's body matches
\* somewhere in the text (case kept), at its start under "^", up to its end
\* under "$"
RegexIsMatch(pattern, text) ==
    LET fromStart == pattern # <<>> /\ pattern[1] = "^"
        p1 == IF fromStart THEN Tail(pattern) ELSE pattern
        toEnd == p1 # <<>> /\ p1[Len(p1)] = "$"
        body == IF toEnd THEN SubSeq(p1, 1, Len(p1) - 1) ELSE p1
    IN  \E i \in 1..(Len(text) - Len(body) + 1) :
            /\ fromStart => i = 1
            /\ toEnd => i + Len(body) - 1 = Len(text)
            /\ \A j \in 1..Len(body) :
                   IF body[j] = "." THEN text[i + j - 1] # "\n"
                   ELSE text[i + j - 1] = body[j]

\* a JSON number without sign, fraction or exponent
IsJsonNumber(s) ==
    /\ s # <<>>
    /\ \A i \in 1..Len(s) : s[i] \in {"0", "1", "2", "3", "4", "5", "6", "7", "8", "9"}
    /\ Len(s) > 1 => s[1] # "0"

RECURSIVE IsJsonValue(_)
\* serde_json::from_str::<Value>(text).is_ok(), for texts of digits,
\* brackets, braces, letters and whitespace: a number, a literal, an empty
\* object, an array of at most one value, with whitespace around the tokens
IsJsonValue(text) ==
    LET t == Trim(text)
    IN  \/ IsJsonNumber(t)
        \/ t \in {<<"t", "r", "u", "e">>, <<"f", "a", "l", "s", "e">>, <<"n", "u", "l", "l">>}
        \/ /\ Len(t) >= 2
           /\ t[1] = "{" /\ t[Len(t)] = "}"
           /\ Trim(SubSeq(t, 2, Len(t) - 1)) = <<>>
        \/ /\ Len(t) >= 2
           /\ t[1] = "[" /\ t[Len(t)] = "]"
           /\ \/ Trim(SubSeq(t, 2, Len(t) - 1)) = <<>>
              \/ IsJsonValue(SubSeq(t, 2, Len(t) - 1))

\* fn check_assertion, for the kinds the configurations use; fault is what
\* the file system does to a snapshot check
check_assertion(a, output, latency_ms, snapshot_key, fs, update_snapshots, fault) ==
    CASE a.kind = "contains" ->
            LET passed == StrContains(ToLowercase(output), ToLowercase(a.value))
            IN  PlainResult(passed, "contains",
                    IF passed THEN "found in output" ELSE "NOT found in output", fs)
      [] a.kind = "not-contains" ->
            LET passed == ~StrContains(ToLowercase(output), ToLowercase(a.value))
            IN  PlainResult(passed, "not-contains",
                    IF passed THEN "correctly absent from output"
                    ELSE "unexpectedly found in output", fs)
      [] a.kind = "latency_max" ->
            PlainResult(WithinLatency(latency_ms, a.value), "latency_max",
                "actual: " \o ToString(latency_ms) \o "ms", fs)
      [] a.kind = "snapshot" ->
            check_snapshot(fs, output, snapshot_key, update_snapshots, fault)
      [] a.kind = "regex" ->
            LET passed == RegexIsMatch(a.value, output)
            IN  PlainResult(passed, "regex",
                    IF passed THEN "pattern matched" ELSE "pattern NOT matched", fs)
      [] a.kind = "json_valid" ->
            LET passed == IsJsonValue(Trim(output))
            IN  PlainResult(passed, "json_valid",
                    IF passed THEN "output is valid JSON" ELSE "output is NOT valid JSON", fs)
      [] a.kind = "min_length" ->
            LET len == ByteLen(Trim(output))
            IN  PlainResult(len >= a.value, "min_length",
                    "actual: " \o ToString(len) \o " chars", fs)
      [] a.kind = "max_length" ->
            LET len == ByteLen(Trim(output))
            IN  PlainResult(len <= a.value, "max_length",
                    "actual: " \o ToString(len) \o " chars", fs)

\* impl From<AssertionResult> for AssertionDetail
AssertionDetail(r) == [label |-> r.label, passed |-> r.passed, detail |-> r.detail]

RECURSIVE EvaluateAssertions(_, _, _, _, _, _, _)
\* parsed_assertions.iter().map(|kind| check_assertion(kind, ..).into())
\* .collect(): the checks in order, each on the file system the one before
\* it left
EvaluateAssertions(parsed, output, latency_ms, snapshot_key, fs, update_snapshots, fault) ==
    IF parsed = <<>>
    THEN [outcomes |-> <<>>, fs |-> fs]
    ELSE LET r == check_assertion(Head(parsed), output, latency_ms, snapshot_key, fs,
                                  update_snapshots, fault)
             rest == EvaluateAssertions(Tail(parsed), output, latency_ms, snapshot_key,
                                        r.fs, update_snapshots, fault)
         IN  [outcomes |-> <<AssertionDetail(r)>> \o rest.outcomes, fs |-> rest.fs]

(***************************************************************************)
(* State.                                                                  *)
(***************************************************************************)
VARIABLES
    service,      \* the error responses the completion service gives in this run
    tests,        \* config.tests
    filter,       \* the filter argument, an Option
    concurrency,  \* the concurrency argument
    permits,      \* free permits of the semaphore
    spawned,      \* handles pushed so far (the spawn loop's position)
    tasks,        \* per handle: the spawned task's state
    cases,        \* what the spawn loops submit, in order (each task's captures)
    results,      \* the Vec the collection loop fills
    returned,     \* run_all_tests has returned results
    overtaken,    \* ghost: some case ended while an earlier-submitted one had not
    pb,           \* the progress bar, an Option holding its position
    snapFs,       \* the snapshot directory and its files
    snapCall,     \* ghost: the last call of check_snapshot and what it returned
    snapBaseline, \* ghost: per key, the output its record was created from on a
                  \* first run, while no update has replaced it
    evalCall,     \* ghost: the last evaluation of a case's assertions on their own
    main          \* the run command around run_all_tests: its flags, its position,
                  \* what it has put out, how it exited

vars == <<service, tests, filter, concurrency, permits, spawned, tasks, cases, results, returned, overtaken,
          pb, snapFs, snapCall, snapBaseline, evalCall, main>>

\* the state of run_all_tests
runVars == <<service, tests, filter, concurrency, permits, spawned, tasks, cases, results, returned, overtaken,
            pb>>

\* let total_cases
total_cases == Len(cases)
Handles == 1..total_cases

NoResult == [kind |-> "none"]

\* how the task's current attempt ended (ghost: kept for the properties)
NoAttempt == [kind |-> "none", status |-> 0, msg |-> <<>>]

InitTask ==
    [pc |-> "unspawned",   \* unspawned, waiting, attempting, sleeping, checking, done,
                           \* panicked
     permit |-> FALSE,     \* the task holds _permit
     retries |-> 0,        \* let mut retries
     sleepLeft |-> 0,      \* ms left of the current time::sleep
     attempts |-> 0,       \* ghost: attempts started
     finished |-> 0,       \* ghost: attempts that ended
     last |-> NoAttempt,   \* ghost: how the current attempt ended, if it has
     delays |-> <<>>,      \* ghost: the delays slept, in order
     waited |-> FALSE,     \* ghost, kept for the cases that bound their latency:
                           \* time passed while the task waited for a permit
     exists |-> FALSE,     \* snap_file.exists(), as check_snapshot saw it
     result |-> NoResult]  \* the CaseResult the task returned

NoCall == [kind |-> "none"]

\* the run command at position pc: Commands::Run { no_validate,
\* update_snapshots, .. }, the issues validation found, the counts it printed,
\* wrote to the report and uploaded, the error main returned, its exit status
MainAt(pc, no_validate, update_snapshots) ==
    [pc |-> pc,   \* validate, run, output, report, upload, exit_code, exited
     no_validate |-> no_validate,
     update_snapshots |-> update_snapshots,
     issues |-> <<>>,
     printed |-> None,
     reported |-> None,
     avg_latency |-> None,
     uploaded |-> None,
     error |-> None,
     exit |-> None]

\* let show_progress = !json_mode && verbosity != Verbosity::Quiet
ShowProgress(json_mode, quiet) == ~json_mode /\ ~quiet

\* let pb = if show_progress && total_cases > 0 { ProgressBar::new(total_cases)
\* .. Some(pb) } else { None }
ProgressBarNew(show_progress, n) ==
    IF show_progress /\ n > 0 THEN Some(0) ELSE None

\* run_all_tests taken on its own: called, not yet returned, without
\* update_snapshots
CalledAlone == main = MainAt("run", TRUE, FALSE)

\* the snapshot directory of a first run
SnapInit ==
    /\ snapFs = EmptyFs
    /\ snapCall = NoCall
    /\ snapBaseline = [k \in SnapKeys |-> None]
    /\ evalCall = NoCall

Init ==
    /\ service = PlainResponses
    /\ tests \in Configs
    /\ filter \in Filters
    /\ concurrency \in 1..MaxConcurrency
    /\ permits = concurrency
    /\ spawned = 0
    /\ cases = Submissions(SelectedTests(tests, filter))
    /\ tasks = [h \in 1..Len(cases) |-> InitTask]
    /\ results = <<>>
    /\ returned = FALSE
    /\ overtaken = FALSE
    /\ pb = ProgressBarNew(TRUE, total_cases)
    /\ SnapInit
    /\ CalledAlone

(***************************************************************************)
(* The CaseResult values.                                                  *)
(***************************************************************************)
\* the case has an assertion that goes to the snapshot store
HasSnapshot(c) == \E k \in 1..Len(c.assertions) : c.assertions[k].kind = "snapshot"

\* the snapshot directory as the check of case h sees it: check_snapshot
\* tests snap_file.exists() and only then writes or reads, so a task that
\* found no file goes on to write one, whatever was written since
FsSeen(h) ==
    IF tasks[h].pc = "checking" /\ ~tasks[h].exists
    THEN [snapFs EXCEPT !.files[SnapshotKey(cases[h].test_id, cases[h].ci)] = None]
    ELSE snapFs

RECURSIVE ElapsedMs(_)
\* start.elapsed() of a case, as far as the model measures time: the backoff
\* delays slept between its attempts
ElapsedMs(delays) == IF delays = <<>> THEN 0 ELSE Head(delays) + ElapsedMs(Tail(delays))

\* faulty variant: start is taken when the task is spawned, before it has
\* its permit
LatencyMsFromSpawn(t) == ElapsedMs(t.delays) + (IF t.waited THEN BASE_RETRY_DELAY_MS ELSE 0)

\* let latency_ms = start.elapsed().as_millis() as u64, start being taken
\* once the permit is held: on the clock of the model, which advances in the
\* backoff sleeps only, the time the task slept
LatencyMs(t) == ElapsedMs(t.delays)

\* faulty variant: a case passes as soon as one of its assertions passes
SuccessResultAnyPassed(h, retries, output) ==
    LET parsed == SelectSeq(cases[h].assertions, from_raw_ok)
        assertion_results ==
            EvaluateAssertions(parsed, output, LatencyMs(tasks[h]),
                SnapshotKey(cases[h].test_id, cases[h].ci), FsSeen(h),
                main.update_snapshots, "none").outcomes
    IN  [kind |-> "case",
         handle |-> h,
         test_id |-> cases[h].test_id,
         passed |-> \E k \in 1..Len(assertion_results) : assertion_results[k].passed,
         assertions |-> assertion_results,
         error |-> None,
         latency_ms |-> LatencyMs(tasks[h]), retries |-> retries,
         tokens |-> UsageOf(output),
         cost_usd |-> calculate_cost(cases[h].model, UsageOf(output)),
         model |-> cases[h].model,
         output |-> Some(output)]

\* Ok(completion) => CaseResult { passed: all_passed, assertions, error: None,
\* retries, tokens: completion.usage, cost_usd: cost, model,
\* output: Some(output_text), .. }
SuccessResult(h, retries, output) ==
    LET parsed == SelectSeq(cases[h].assertions, from_raw_ok)
        assertion_results ==
            EvaluateAssertions(parsed, output, LatencyMs(tasks[h]),
                SnapshotKey(cases[h].test_id, cases[h].ci), FsSeen(h),
                main.update_snapshots, "none").outcomes
    IN  [kind |-> "case",
         handle |-> h,
         test_id |-> cases[h].test_id,
         passed |-> \A k \in 1..Len(assertion_results) : assertion_results[k].passed,
         assertions |-> assertion_results,
         error |-> None,
         latency_ms |-> LatencyMs(tasks[h]), retries |-> retries,
         tokens |-> UsageOf(output),
         cost_usd |-> calculate_cost(cases[h].model, UsageOf(output)),
         model |-> cases[h].model,
         output |-> Some(output)]

\* the snapshot directory once the assertions of case h were checked
FsAfterCase(h, output) ==
    EvaluateAssertions(SelectSeq(cases[h].assertions, from_raw_ok), output,
        LatencyMs(tasks[h]), SnapshotKey(cases[h].test_id, cases[h].ci), FsSeen(h),
        main.update_snapshots, "none").fs

\* faulty variant: a failed case always reports no retries
FailureResultZeroRetries(h, retries, err_msg) ==
    [kind |-> "case", handle |-> h, test_id |-> cases[h].test_id, passed |-> FALSE,
     assertions |-> <<>>, error |-> Some(err_msg), latency_ms |-> LatencyMs(tasks[h]), retries |-> 0,
     tokens |-> ZeroUsage, cost_usd |-> 0, model |-> cases[h].model, output |-> None]

\* faulty variant: passed is taken over the (empty) outcome list of a failed
\* case, which holds vacuously
FailureResultVacuousPass(h, retries, err_msg) ==
    [kind |-> "case", handle |-> h, test_id |-> cases[h].test_id, passed |-> TRUE,
     assertions |-> <<>>, error |-> Some(err_msg), latency_ms |-> LatencyMs(tasks[h]), retries |-> retries,
     tokens |-> ZeroUsage, cost_usd |-> 0, model |-> cases[h].model, output |-> None]

\* Err(e) => CaseResult { passed: false, assertions: vec![],
\* error: Some(e.to_string()), retries, tokens: TokenUsage::default(),
\* cost_usd: 0.0, model, output: None, .. }
FailureResult(h, retries, err_msg) ==
    [kind |-> "case",
     handle |-> h,
     test_id |-> cases[h].test_id,
     passed |-> FALSE,
     assertions |-> <<>>,
     error |-> Some(err_msg),
     latency_ms |-> LatencyMs(tasks[h]), retries |-> retries,
     tokens |-> ZeroUsage,
     cost_usd |-> 0,
     model |-> cases[h].model,
     output |-> None]

\* JoinError's Display for a panicked task, after "Task join error: "
JoinErrorMsg ==
    <<"T", "a", "s", "k", " ", "j", "o", "i", "n", " ", "e", "r", "r", "o", "r", ":", " ">>
    \o <<"t", "a", "s", "k", " ", "p", "a", "n", "i", "c", "k", "e", "d">>

Unknown == <<"u", "n", "k", "n", "o", "w", "n">>

\* Err(e) => results.push(CaseResult { test_id: "unknown", passed: false,
\* assertions: vec![], error: Some(format!("Task join error: {}", e)),
\* retries: 0, tokens: TokenUsage::default(), cost_usd: 0.0, model: "unknown",
\* output: None, .. })
PlaceholderResult(h) ==
    [kind |-> "case",
     handle |-> h,
     test_id |-> Unknown,
     passed |-> FALSE,
     assertions |-> <<>>,
     error |-> Some(JoinErrorMsg),
     latency_ms |-> 0, retries |-> 0,
     tokens |-> ZeroUsage,
     cost_usd |-> 0,
     model |-> "unknown",
     output |-> None]

(***************************************************************************)
(* The semaphore.                                                          *)
(***************************************************************************)
\* faulty variant: the comparison admits a task when no permit is left
CanAcquireOffByOne(free) == free >= 0

\* Semaphore::acquire completes only when a permit is free
CanAcquire(free) == free > 0

\* faulty variant: a dropped permit is not given back
ReleaseLost(free) == free

\* dropping _permit gives the permit back
Release(free) == free + 1

(***************************************************************************)
(* Actions of run_all_tests and of its tasks.                              *)
(***************************************************************************)
Frame == UNCHANGED <<service, tests, filter, concurrency, cases, snapFs, snapCall, snapBaseline, evalCall, main>>

\* tokio::spawn(..); handles.push(handle): one turn of the spawn loops
Spawn ==
    /\ spawned < total_cases
    /\ spawned' = spawned + 1
    /\ tasks' = [tasks EXCEPT ![spawned + 1].pc = "waiting"]
    /\ UNCHANGED <<permits, results, returned, overtaken, pb>>
    /\ Frame

\* faulty variant: no case starts while another sleeps in backoff
AcquireNotDuringBackoff(h) ==
    /\ tasks[h].pc = "waiting"
    /\ CanAcquire(permits)
    /\ \A k \in Handles : tasks[k].pc # "sleeping"
    /\ permits' = permits - 1
    /\ tasks' = [tasks EXCEPT ![h].pc = "attempting",
                              ![h].permit = TRUE,
                              ![h].attempts = 1]
    /\ UNCHANGED <<spawned, results, returned, overtaken, pb>>
    /\ Frame

\* let _permit = semaphore.acquire().await; the task then enters
\* complete_with_retry and starts its first attempt
Acquire(h) ==
    /\ tasks[h].pc = "waiting"
    /\ CanAcquire(permits)
    /\ permits' = permits - 1
    /\ tasks' = [tasks EXCEPT ![h].pc = "attempting",
                              ![h].permit = TRUE,
                              ![h].attempts = 1]
    /\ UNCHANGED <<spawned, results, returned, overtaken, pb>>
    /\ Frame

\* faulty variant: a success that needed a retry is reported as not passed
TaskAfterOkRetriedFails(t, h, output) ==
    [t EXCEPT !.pc = "done",
              !.permit = FALSE,
              !.finished = t.attempts,
              !.last = [kind |-> "ok", status |-> 200, msg |-> output],
              !.result = [SuccessResult(h, t.retries, output)
                             EXCEPT !.passed = @ /\ t.retries = 0]]

\* the task's state once the attempt returned Ok(output): complete_with_retry
\* returns (Ok(output), retries), the result is built, _permit is dropped
TaskAfterOk(t, h, output) ==
    [t EXCEPT !.pc = "done",
              !.permit = FALSE,
              !.finished = t.attempts,
              !.last = [kind |-> "ok", status |-> 200, msg |-> output],
              !.result = SuccessResult(h, t.retries, output)]

\* faulty variant: the permit is given back for the time of the backoff sleep
TaskAfterErrSleepsWithoutPermit(t, h, kind, status, err_msg) ==
    IF ShouldRetry(err_msg, t.retries)
    THEN [t EXCEPT !.pc = "sleeping",
                   !.permit = FALSE,
                   !.retries = t.retries + 1,
                   !.sleepLeft = BackoffDelay(t.retries + 1),
                   !.delays = Append(t.delays, BackoffDelay(t.retries + 1)),
                   !.finished = t.attempts,
                   !.last = [kind |-> kind, status |-> status, msg |-> err_msg]]
    ELSE [t EXCEPT !.pc = "done",
                   !.permit = FALSE,
                   !.finished = t.attempts,
                   !.last = [kind |-> kind, status |-> status, msg |-> err_msg],
                   !.result = FailureResult(h, t.retries, err_msg)]

\* faulty variant: a case that ends in failure keeps its permit
TaskAfterErrKeepsPermit(t, h, kind, status, err_msg) ==
    IF ShouldRetry(err_msg, t.retries)
    THEN [t EXCEPT !.pc = "sleeping",
                   !.retries = t.retries + 1,
                   !.sleepLeft = BackoffDelay(t.retries + 1),
                   !.delays = Append(t.delays, BackoffDelay(t.retries + 1)),
                   !.finished = t.attempts,
                   !.last = [kind |-> kind, status |-> status, msg |-> err_msg]]
    ELSE [t EXCEPT !.pc = "done",
                   !.finished = t.attempts,
                   !.last = [kind |-> kind, status |-> status, msg |-> err_msg],
                   !.result = FailureResult(h, t.retries, err_msg)]

\* faulty variant: once a retry was made, the result carries the error of the
\* earlier, rate-limited attempt and not the one that ended the sequence
TaskAfterErrStaleError(t, h, kind, status, err_msg) ==
    IF ShouldRetry(err_msg, t.retries)
    THEN [t EXCEPT !.pc = "sleeping",
                   !.retries = t.retries + 1,
                   !.sleepLeft = BackoffDelay(t.retries + 1),
                   !.delays = Append(t.delays, BackoffDelay(t.retries + 1)),
                   !.finished = t.attempts,
                   !.last = [kind |-> kind, status |-> status, msg |-> err_msg]]
    ELSE [t EXCEPT !.pc = "done",
                   !.permit = FALSE,
                   !.finished = t.attempts,
                   !.last = [kind |-> kind, status |-> status, msg |-> err_msg],
                   !.result = FailureResult(h, t.retries,
                                  IF t.retries > 0
                                  THEN ApiErrorMsg([status |-> 429, body |-> BodyRateLimited])
                                  ELSE err_msg)]

\* the task's state once the attempt gave Err(e), e.to_string() = err_msg:
\* retry after the backoff sleep, or return (Err(e), retries)
TaskAfterErr(t, h, kind, status, err_msg) ==
    IF ShouldRetry(err_msg, t.retries)
    THEN [t EXCEPT !.pc = "sleeping",
                   !.retries = t.retries + 1,
                   !.sleepLeft = BackoffDelay(t.retries + 1),
                   !.delays = Append(t.delays, BackoffDelay(t.retries + 1)),
                   !.finished = t.attempts,
                   !.last = [kind |-> kind, status |-> status, msg |-> err_msg]]
    ELSE [t EXCEPT !.pc = "done",
                   !.permit = FALSE,
                   !.finished = t.attempts,
                   !.last = [kind |-> kind, status |-> status, msg |-> err_msg],
                   !.result = FailureResult(h, t.retries, err_msg)]

\* the task's state once the attempt returned Ok(output) to a case with a
\* snapshot assertion: check_snapshot has looked whether the record exists
\* (under update_snapshots it does not look) and has yet to write or read it
TaskAtCheck(t, h, output) ==
    [t EXCEPT !.pc = "checking",
              !.finished = t.attempts,
              !.last = [kind |-> "ok", status |-> 200, msg |-> output],
              !.exists = \/ main.update_snapshots
                         \/ snapFs.files[SnapshotKey(cases[h].test_id, cases[h].ci)].some]

\* faulty variant: the increment is applied to the position the bar was
\* created with, and the increments of the other tasks are lost
ProgressIncStale(p, delta) == IF p.some THEN Some(delta) ELSE p

\* if let Some(ref pb) = pb_arc { pb.inc(delta) }: the position is advanced
\* in one atomic step
ProgressInc(p, delta) == IF p.some THEN Some(p.val + delta) ELSE p

\* the progress bar after a task moved to state u: a task that returns its
\* result has gone through pb.inc(1), a task that panicked has not
ProgressAfter(p, u) == IF u.pc = "done" THEN ProgressInc(p, 1) ELSE p

\* the permits after task h moved from state t to state u
PermitsAfter(free, t, u) ==
    IF t.permit /\ ~u.permit THEN Release(free) ELSE free

Ended(t) == t.pc \in {"done", "panicked"}

\* ghost: task h, moving to state u, ends before an earlier-submitted task
OvertakenAfter(h, u) ==
    overtaken \/ (Ended(u) /\ \E k \in 1..(h - 1) : ~Ended(tasks[k]))

\* provider.complete returned Ok within the timeout
AttemptOk(h, output) ==
    /\ tasks[h].pc = "attempting"
    /\ LET u == IF HasSnapshot(cases[h])
                THEN TaskAtCheck(tasks[h], h, output)
                ELSE TaskAfterOk(tasks[h], h, output)
       IN  /\ tasks' = [tasks EXCEPT ![h] = u]
           /\ permits' = PermitsAfter(permits, tasks[h], u)
           /\ overtaken' = OvertakenAfter(h, u)
           /\ pb' = ProgressAfter(pb, u)
    /\ UNCHANGED <<spawned, results, returned>>
    /\ Frame

\* provider.complete returned Err within the timeout
AttemptErr(h, resp) ==
    /\ tasks[h].pc = "attempting"
    /\ LET u == TaskAfterErr(tasks[h], h, "error", resp.status, ApiErrorMsg(resp))
       IN  /\ tasks' = [tasks EXCEPT ![h] = u]
           /\ permits' = PermitsAfter(permits, tasks[h], u)
           /\ overtaken' = OvertakenAfter(h, u)
           /\ pb' = ProgressAfter(pb, u)
    /\ UNCHANGED <<spawned, results, returned>>
    /\ Frame

\* the rest of check_snapshot and of the Ok arm of a case with a snapshot
\* assertion: the record is written or read, the result built, _permit dropped
CheckAssertions(h) ==
    /\ tasks[h].pc = "checking"
    /\ LET u == TaskAfterOk(tasks[h], h, tasks[h].last.msg)
       IN  /\ tasks' = [tasks EXCEPT ![h] = u]
           /\ permits' = PermitsAfter(permits, tasks[h], u)
           /\ overtaken' = OvertakenAfter(h, u)
           /\ pb' = ProgressAfter(pb, u)
    /\ snapFs' = FsAfterCase(h, tasks[h].last.msg)
    /\ UNCHANGED <<spawned, results, returned>>
    /\ UNCHANGED <<service, tests, filter, concurrency, cases, snapCall, snapBaseline, evalCall, main>>

\* time::timeout elapsed first: the attempt's future is dropped and
\* Err(anyhow!("request timed out after {}ms", timeout_ms)) takes its place
AttemptTimeout(h) ==
    /\ tasks[h].pc = "attempting"
    /\ LET u == TaskAfterErr(tasks[h], h, "timeout", 0, TimeoutMsg(DEFAULT_TIMEOUT_MS))
       IN  /\ tasks' = [tasks EXCEPT ![h] = u]
           /\ permits' = PermitsAfter(permits, tasks[h], u)
           /\ overtaken' = OvertakenAfter(h, u)
           /\ pb' = ProgressAfter(pb, u)
    /\ UNCHANGED <<spawned, results, returned>>
    /\ Frame

\* the clock's step: the base delay
TickMs == BASE_RETRY_DELAY_MS

SleepAfterTick(left) == IF left > TickMs THEN left - TickMs ELSE 0

\* the case has a latency_max assertion
BoundsLatency(c) == \E k \in 1..Len(c.assertions) : c.assertions[k].kind = "latency_max"

\* time passes, for every task sleeping in time::sleep and for every task
\* waiting in semaphore.acquire()
Tick ==
    /\ \E h \in Handles : tasks[h].pc = "sleeping" /\ tasks[h].sleepLeft > 0
    /\ tasks' = [h \in Handles |->
                    IF tasks[h].pc = "sleeping"
                    THEN [tasks[h] EXCEPT !.sleepLeft = SleepAfterTick(tasks[h].sleepLeft)]
                    ELSE IF tasks[h].pc = "waiting" /\ BoundsLatency(cases[h])
                    THEN [tasks[h] EXCEPT !.waited = TRUE]
                    ELSE tasks[h]]
    /\ UNCHANGED <<permits, spawned, results, returned, overtaken, pb>>
    /\ Frame

\* time::sleep(delay).await is over once the whole delay has passed
SleepOver(left) == left = 0

\* continue: the next turn of the loop starts the next attempt
Wake(h) ==
    /\ tasks[h].pc = "sleeping"
    /\ SleepOver(tasks[h].sleepLeft)
    /\ tasks' = [tasks EXCEPT ![h].pc = "attempting",
                              ![h].attempts = tasks[h].attempts + 1,
                              ![h].last = NoAttempt]
    /\ UNCHANGED <<permits, spawned, results, returned, overtaken, pb>>
    /\ Frame

\* faulty variant: the permit is not given back when the task panics
TaskAfterPanicLeak(t) == [t EXCEPT !.pc = "panicked"]

\* the task's state once it panicked: its locals, _permit among them, are
\* dropped as the stack unwinds
TaskAfterPanic(t) == [t EXCEPT !.pc = "panicked", !.permit = FALSE]

\* the task panics while it runs between acquire and its return (in the
\* provider, or in check_assertion: expect(), a slice off a char boundary)
Panic(h) ==
    /\ tasks[h].pc \in {"attempting", "checking"}
    /\ LET u == TaskAfterPanic(tasks[h])
       IN  /\ tasks' = [tasks EXCEPT ![h] = u]
           /\ permits' = PermitsAfter(permits, tasks[h], u)
           /\ overtaken' = OvertakenAfter(h, u)
           /\ pb' = ProgressAfter(pb, u)
    /\ UNCHANGED <<spawned, results, returned>>
    /\ Frame

\* faulty variant: results are collected as the tasks end, in any order
NextHandlesAny(n, collected) == 1..n

\* for handle in handles: the handle the collection loop awaits next
NextHandles(n, collected) == {h \in 1..n : h = Len(collected) + 1}

\* faulty variant: the placeholder carries the retries the task had made
JoinedResultKeepRetries(t, h) ==
    IF t.pc = "done" THEN t.result
    ELSE [kind |-> "case", handle |-> h, test_id |-> <<"u", "n", "k", "n", "o", "w", "n">>,
          passed |-> FALSE, assertions |-> <<>>, error |-> Some(<<"T", "a", "s", "k">>),
          latency_ms |-> 0, retries |-> t.retries, tokens |-> ZeroUsage, cost_usd |-> 0,
          model |-> "unknown", output |-> None]

\* match handle.await { Ok(case_result) => push, Err(e) => push placeholder }
JoinedResult(t, h) ==
    IF t.pc = "done" THEN t.result ELSE PlaceholderResult(h)

Join(h) ==
    /\ spawned = total_cases
    /\ h \in NextHandles(total_cases, results)
    /\ \A k \in 1..Len(results) : results[k].handle # h
    /\ tasks[h].pc \in {"done", "panicked"}
    /\ results' = Append(results, JoinedResult(tasks[h], h))
    /\ UNCHANGED <<permits, spawned, tasks, returned, overtaken, pb>>
    /\ Frame

\* results
Return ==
    /\ spawned = total_cases
    /\ Len(results) = total_cases
    /\ ~returned
    /\ returned' = TRUE
    /\ UNCHANGED <<permits, spawned, tasks, results, overtaken, pb>>
    /\ Frame

Next ==
    \/ Spawn
    \/ \E h \in Handles : Acquire(h)
    \/ \E h \in Handles : \E output \in Outputs : AttemptOk(h, output)
    \/ \E h \in Handles : \E resp \in service : AttemptErr(h, resp)
    \/ \E h \in Handles : AttemptTimeout(h)
    \/ Tick
    \/ \E h \in Handles : Wake(h)
    \/ \E h \in Handles : Panic(h)
    \/ \E h \in Handles : Join(h)
    \/ Return

Spec == Init /\ [][Next]_vars

\* the run under a fair scheduler: the runtime keeps running whatever is
\* runnable, timers fire, and a pending completion attempt ends (it returns
\* or the per-attempt timeout cuts it off)
\* a run of both tests with one case each, unfiltered, over any number of slots
InitLive ==
    /\ service = PlainResponses
    /\ tests = <<MakeTest(TestIdAB, 1), MakeTest(TestIdB, 1)>>
    /\ filter = None
    /\ concurrency \in 1..MaxConcurrency
    /\ permits = concurrency
    /\ spawned = 0
    /\ cases = Submissions(SelectedTests(tests, filter))
    /\ tasks = [h \in 1..Len(cases) |-> InitTask]
    /\ results = <<>>
    /\ returned = FALSE
    /\ overtaken = FALSE
    /\ pb = ProgressBarNew(TRUE, total_cases)
    /\ SnapInit
    /\ CalledAlone

SpecLive == InitLive /\ [][Next]_vars /\ WF_vars(Next)

\* the same run, with the progress bar shown or not (json_mode, or
\* Verbosity::Quiet)
InitProgress ==
    /\ service = PlainResponses
    /\ tests = <<MakeTest(TestIdAB, 1), MakeTest(TestIdB, 1)>>
    /\ filter = None
    /\ concurrency \in 1..MaxConcurrency
    /\ permits = concurrency
    /\ spawned = 0
    /\ cases = Submissions(SelectedTests(tests, filter))
    /\ tasks = [h \in 1..Len(cases) |-> InitTask]
    /\ results = <<>>
    /\ returned = FALSE
    /\ overtaken = FALSE
    /\ \E json_mode \in BOOLEAN, quiet \in BOOLEAN :
          pb = ProgressBarNew(ShowProgress(json_mode, quiet), total_cases)
    /\ SnapInit
    /\ CalledAlone

SpecProgress == InitProgress /\ [][Next]_vars

\* a run of two cases that bound their latency, over one slot
InitLatency ==
    /\ service = PlainResponses
    /\ tests = <<MakeTest(TestIdL, 2)>>
    /\ filter = None
    /\ concurrency = 1
    /\ permits = concurrency
    /\ spawned = 0
    /\ cases = Submissions(SelectedTests(tests, filter))
    /\ tasks = [h \in 1..Len(cases) |-> InitTask]
    /\ results = <<>>
    /\ returned = FALSE
    /\ overtaken = FALSE
    /\ pb = ProgressBarNew(TRUE, total_cases)
    /\ SnapInit
    /\ CalledAlone

SpecLatency == InitLatency /\ [][Next]_vars

(***************************************************************************)
(* Evaluations of snapshot assertions against the snapshot directory, one  *)
(* check_snapshot call at a time.                                          *)
(***************************************************************************)
\* ghost: the baseline of the key after a call that returned r
BaselineAfter(base, key, output, update, r) ==
    IF update
    THEN IF r.passed THEN [base EXCEPT ![key] = None] ELSE base
    ELSE IF ~snapFs.files[key].some /\ r.passed
    THEN [base EXCEPT ![key] = Some(output)]
    ELSE base

\* check_assertion(AssertionKind::Snapshot, output, ..) => check_snapshot(..)
CheckSnapshot(key, output, update, fault) ==
    LET r == check_snapshot(snapFs, output, key, update, fault)
    IN  /\ fault \in FaultsOf(snapFs, key, update)
        /\ snapFs' = r.fs
        /\ snapCall' = [kind |-> "call", key |-> key, output |-> output,
                        update |-> update, fault |-> fault,
                        before |-> snapFs.files[key],
                        passed |-> r.passed, label |-> r.label, detail |-> r.detail]
        /\ snapBaseline' = BaselineAfter(snapBaseline, key, output, update, r)
        /\ UNCHANGED <<runVars, evalCall, main>>

NextSnapshot ==
    \E key \in SnapKeys, output \in SnapOutputs, update \in BOOLEAN, fault \in IoFaults :
        CheckSnapshot(key, output, update, fault)

\* no run of cases is under way; the snapshot directory is that of a first run
InitSnapshot ==
    /\ service = PlainResponses
    /\ tests = <<>>
    /\ filter = None
    /\ concurrency = 1
    /\ permits = concurrency
    /\ spawned = 0
    /\ cases = <<>>
    /\ tasks = <<>>
    /\ results = <<>>
    /\ returned = FALSE
    /\ overtaken = FALSE
    /\ pb = ProgressBarNew(TRUE, total_cases)
    /\ SnapInit
    /\ CalledAlone

SpecSnapshot == InitSnapshot /\ [][NextSnapshot]_vars

(***************************************************************************)
(* Comparisons of a stored record with an output (assertions.rs 172-190).  *)
(***************************************************************************)
\* n times the character c
Repeat(c, n) == [i \in 1..n |-> c]

\* lines of 40 and 41 bytes, lines where a two-byte character lies across
\* and before byte 40, a line of 21 two-byte characters
LongLines ==
    {Repeat("a", 40), Repeat("a", 41), Repeat("a", 39) \o <<"é", "a">>,
     Repeat("a", 38) \o <<"é", "a", "a">>, Repeat("é", 21)}

\* the texts compared: of one to three lines, ended by "\n" or "\r\n", with
\* whitespace around, with long lines
DiffTexts ==
    {<<"a">>, <<"b">>, <<" ", "a", "\n">>, <<>>,
     <<"a", "\n", "b">>, <<"a", "\r", "\n", "b">>, <<"a", "\n", "c">>,
     <<"a", "\n", "b", "\n", "c">>, <<"a", "\n", "\n", "c">>}
    \cup LongLines
    \cup {<<"a", "\n">> \o l : l \in LongLines}

\* a comparison of the record existing with output
Compare(existing, output) ==
    /\ snapCall' = [kind |-> "compare"] @@ CompareTexts(existing, output)
    /\ UNCHANGED <<runVars, snapFs, snapBaseline, evalCall, main>>

NextCompare == \E existing \in DiffTexts, output \in DiffTexts : Compare(existing, output)

SpecCompare == InitSnapshot /\ [][NextCompare]_vars

(***************************************************************************)
(* Evaluations of the assertions of a case whose completion succeeded      *)
(* (runner.rs 211-226), one case at a time.                                *)
(***************************************************************************)
\* what is searched for in the outputs: letters in either case, a word, the
\* empty text
Needles == {<<"o">>, <<"K">>, <<"n">>, <<"O", "k">>, <<>>}

\* a successful case with text assertions: both kinds on the same text
TextInputs ==
    { [assertions |-> <<Raw("contains", s), Raw("not-contains", s)>>,
       output |-> o, latency_ms |-> 100] :
         s \in Needles, o \in {OutputOK, OutputNo, <<"o", "k">>, <<>>} }

\* a successful case with a latency bound, measured below, at and above it
LatencyInputs ==
    { [assertions |-> <<Raw("latency_max", m)>>, output |-> OutputOK, latency_ms |-> l] :
         m \in {0, 1000}, l \in {0, 999, 1000, 1001, 3000} }

\* the outputs measured: plain, with whitespace around, with a two-byte
\* character, blank
LengthOutputs ==
    {<<"a">>, <<" ", "a", "b", "\n">>, <<"é">>, <<"a", "é", "b">>, <<" ">>,
     <<"t", "o", "o", " ", "l", "o", "n", "g">>}

\* a successful case with both length bounds at the same n
LengthInputs ==
    { [assertions |-> <<Raw("min_length", n), Raw("max_length", n)>>,
       output |-> o, latency_ms |-> 100] :
         n \in 0..3, o \in LengthOutputs }

\* a successful case with a snapshot assertion followed by a text assertion
SnapshotInputs ==
    { [assertions |-> <<Raw("snapshot", <<>>), Raw("contains", <<"a">>)>>,
       output |-> o, latency_ms |-> 100] :
         o \in {<<"a">>, <<"a", " ">>, <<"b">>} }

\* a successful case with a pattern (plain, with ".", with either end fixed,
\* one that does not compile) whose output has to be JSON too
RegexInputs ==
    { [assertions |-> <<Raw("regex", p), Raw("json_valid", <<>>)>>, output |-> o,
       latency_ms |-> 100] :
         p \in {<<"O", "K">>, <<"^", "K">>, <<"O", "$">>, <<"o", ".">>, <<".">>, <<>>,
                <<"^", "$">>, <<"(", "O">>},
         o \in {OutputOK, OutputNo, <<"O", "K", "\n">>, <<>>} }

\* a successful case whose output has to be JSON
JsonInputs ==
    { [assertions |-> <<Raw("json_valid", <<>>)>>, output |-> o, latency_ms |-> 100] :
         o \in {<<"{", "}">>, <<" ", "{", " ", "}", "\n">>, <<"[", "1", "2", "]">>,
                <<"[", "[", "]", "]">>, <<"0", "1">>, <<"7">>, <<"t", "r", "u", "e">>,
                OutputOK, <<"{">>, <<"[", "}">>, <<>>} }

EvalInputs ==
    TextInputs \cup LatencyInputs \cup LengthInputs \cup SnapshotInputs \cup RegexInputs
        \cup JsonInputs

\* the Ok arm up to all_passed: the raw assertions are parsed, the parsed ones
\* checked in order, and passed is taken over the outcomes
Evaluate(inp, key, update, fault) ==
    LET parsed == SelectSeq(inp.assertions, from_raw_ok)
        r == EvaluateAssertions(parsed, inp.output, inp.latency_ms, key, snapFs, update, fault)
    IN  /\ IF inp \in SnapshotInputs
           THEN fault \in FaultsOf(snapFs, key, update)
           ELSE ~update /\ fault = "none"
        /\ snapFs' = r.fs
        /\ evalCall' = [kind |-> "call", assertions |-> parsed, output |-> inp.output,
                        latency_ms |-> inp.latency_ms, key |-> key, update |-> update,
                        fault |-> fault, before |-> snapFs.files[key],
                        outcomes |-> r.outcomes,
                        all_passed |-> \A k \in 1..Len(r.outcomes) : r.outcomes[k].passed]
        /\ UNCHANGED <<runVars, snapCall, snapBaseline, main>>

\* the Err arm: the completion failed, no assertion is parsed or checked and
\* the result carries the error
EvaluateFailed(err_msg, key, update) ==
    /\ snapFs' = snapFs
    /\ evalCall' = [kind |-> "failed", assertions |-> <<>>, output |-> err_msg,
                    latency_ms |-> 0, key |-> key, update |-> update,
                    fault |-> "none", before |-> snapFs.files[key],
                    outcomes |-> <<>>, all_passed |-> FALSE]
    /\ UNCHANGED <<runVars, snapCall, snapBaseline, main>>

\* the evaluations of the first case of test "ab"
NextAssert ==
    \/ \E inp \in EvalInputs, update \in BOOLEAN, fault \in IoFaults :
          Evaluate(inp, SnapshotKey(TestIdAB, 0), update, fault)
    \/ \E update \in BOOLEAN :
          EvaluateFailed(TimeoutMsg(DEFAULT_TIMEOUT_MS), SnapshotKey(TestIdAB, 0), update)

SpecAssert == InitSnapshot /\ [][NextAssert]_vars

(***************************************************************************)
(* The run command (main.rs, Commands::Run) around run_all_tests, and      *)
(* validate_config (config.rs).  The configurations have a known provider, *)
(* a temperature in range, non-empty prompts without placeholders and      *)
(* inline cases only.                                                      *)
(***************************************************************************)
\* pub const KNOWN_ASSERTION_TYPES
KNOWN_ASSERTION_TYPES ==
    {"contains", "not-contains", "latency_max", "snapshot", "regex", "json_valid",
     "min_length", "max_length"}

\* one entry of the issues validate_config returns
Issue(text, test_id, case_no) == [issue |-> text, test_id |-> test_id, case_no |-> case_no]

\* let is_template = assertion.value.as_str().map_or(false, |s| s.contains("{{"))
is_template(a) == a.yaml = "str" /\ StrContains(a.value, <<"{", "{">>)

\* for assertion in &case.assertions { .. }
AssertionIssues(test, ci) ==
    LET raw == test.cases[ci].assertions
        bad == SelectSeq(raw, LAMBDA a : \/ a.kind \notin KNOWN_ASSERTION_TYPES
                                         \/ ~from_raw_ok(a) /\ ~is_template(a))
    IN  [k \in 1..Len(bad) |->
            IF bad[k].kind \notin KNOWN_ASSERTION_TYPES
            THEN Issue("unknown assertion type", test.id, ci)
            ELSE Issue("invalid assertion value", test.id, ci)]

RECURSIVE CaseIssues(_, _)
\* for (ci, case) in test.cases.iter().enumerate() { .. }, from case ci on
CaseIssues(test, ci) ==
    IF ci > Len(test.cases) THEN <<>>
    ELSE (IF test.cases[ci].assertions = <<>>
          THEN <<Issue("no assertions defined", test.id, ci)>>
          ELSE <<>>)
         \o AssertionIssues(test, ci)
         \o CaseIssues(test, ci + 1)

\* faulty variant: an id seen before is not noticed
SeenBeforeNever(id, seen_ids) == FALSE

\* !seen_ids.insert(&test.id): the id is in the set already
SeenBefore(id, seen_ids) == id \in seen_ids

RECURSIVE TestIssues(_, _)
\* for test in &config.tests { if !seen_ids.insert(&test.id) { .. } .. }
TestIssues(ts, seen_ids) ==
    IF ts = <<>> THEN <<>>
    ELSE (IF SeenBefore(Head(ts).id, seen_ids)
          THEN <<Issue("Duplicate test ID", Head(ts).id, 0)>>
          ELSE <<>>)
         \o (IF Head(ts).cases = <<>>
             THEN <<Issue("no test cases defined (inline or CSV)", Head(ts).id, 0)>>
             ELSE <<>>)
         \o CaseIssues(Head(ts), 1)
         \o TestIssues(Tail(ts), seen_ids \cup {Head(ts).id})

\* pub fn validate_config
validate_config(cfg) ==
    (IF cfg = <<>> THEN <<Issue("No tests defined", <<>>, 0)>> ELSE <<>>)
    \o TestIssues(cfg, {})

\* the configurations the command is run on: a valid one with one case, one
\* whose case has a placeholder for a value, a valid one with two snapshot
\* cases, one whose second test has a case
\* without assertions, one with the same test twice, one without tests
MainConfigs ==
    { <<MakeTest(TestIdAB, 1)>>,
      <<MakeTest(TestIdT, 1)>>,
      <<MakeTest(TestIdS, 2)>>,
      <<MakeTest(TestIdAB, 1), MakeTest(TestIdB, 1)>>,
      <<MakeTest(TestIdS, 1), MakeTest(TestIdS, 1)>>,
      <<>> }

\* configurations run with validation only: a repeated id with another test
\* in between, an id three times, a repeated test whose cases assert
\* nothing, a test without cases
RejectedConfigs ==
    { <<MakeTest(TestIdAB, 1), MakeTest(TestIdS, 1), MakeTest(TestIdAB, 1)>>,
      <<MakeTest(TestIdS, 1), MakeTest(TestIdS, 1), MakeTest(TestIdS, 1)>>,
      <<MakeTest(TestIdB, 1), MakeTest(TestIdB, 1)>>,
      <<MakeTest(TestIdAB, 0)>> }

\* results.iter().filter(|r| r.passed).count()
CountPassed(rs) == Cardinality({k \in 1..Len(rs) : rs[k].passed})

\* print_results: let total, let passed, let failed
SummaryCounts(rs) ==
    LET total == Len(rs)
        passed == CountPassed(rs)
    IN  [total |-> total, passed |-> passed, failed |-> total - passed]

\* generate_report: let total, let passed, let failed
ReportCounts(rs) ==
    LET total == Len(rs)
        passed == CountPassed(rs)
        failed == total - passed
    IN  [total |-> total, passed |-> passed, failed |-> failed]

RECURSIVE SumLatency(_)
\* results.iter().map(|r| r.latency_ms).sum::<u64>()
SumLatency(rs) == IF rs = <<>> THEN 0 ELSE Head(rs).latency_ms + SumLatency(Tail(rs))

\* faulty variant: the sum is divided by the number of results that passed
avg_latencyOverPassed(rs) ==
    IF CountPassed(rs) > 0 THEN SumLatency(rs) \div CountPassed(rs) ELSE 0

\* generate_report: let avg_latency: u64 = if total > 0 { sum / total as u64 }
\* else { 0 }
avg_latency(rs) ==
    IF Len(rs) > 0 THEN SumLatency(rs) \div Len(rs) ELSE 0

\* faulty variant: every result that did not pass is left out of failed
UploadCountsNoneFailed(rs) ==
    LET total == Len(rs)
        passed == CountPassed(rs)
    IN  [total |-> total, passed |-> passed, failed |-> 0]

\* upload_results: ReportUpload { total, passed, failed: total - passed, .. }
UploadCounts(rs) ==
    LET total == Len(rs)
        passed == CountPassed(rs)
    IN  [total |-> total, passed |-> passed, failed |-> total - passed]

\* main returns Err(e): the process ends with a failure status
FailWith(m, e) == [m EXCEPT !.pc = "exited", !.error = Some(e), !.exit = Some(1)]

MainFrame ==
    UNCHANGED <<service, tests, filter, concurrency, permits, spawned, tasks, cases, results,
                returned, overtaken, pb, snapFs, snapCall, snapBaseline, evalCall>>

\* 2. Auto-validate (unless --no-validate): with issues, exit(1)
Validate ==
    /\ main.pc = "validate"
    /\ LET issues == IF main.no_validate THEN <<>> ELSE validate_config(tests)
       IN  main' = IF issues # <<>>
                   THEN [main EXCEPT !.pc = "exited", !.issues = issues, !.exit = Some(1)]
                   ELSE [main EXCEPT !.pc = "provider"]
    /\ MainFrame

\* 3. Create provider: create_provider(provider_name)?
CreateProvider(ok) ==
    /\ main.pc = "provider"
    /\ main' = IF ok THEN [main EXCEPT !.pc = "run"] ELSE FailWith(main, "create_provider")
    /\ MainFrame

\* 4. run_all_tests(..).await: the steps of the runner and of its tasks
RunTests ==
    /\ main.pc = "run"
    /\ \/ Next
       \/ \E h \in Handles : CheckAssertions(h)

\* 5. Output results: the JSON of the results, or print_results
OutputResults(json) ==
    /\ main.pc = "run"
    /\ returned
    /\ main' = [main EXCEPT !.pc = "report",
                            !.printed = IF json THEN None ELSE Some(SummaryCounts(results))]
    /\ MainFrame

\* 6. Generate HTML report: if let Some(report_path) = report_flag {
\* generate_report(&results, path)? }
GenerateReport(report_flag, ok) ==
    /\ main.pc = "report"
    /\ report_flag \/ ok
    /\ main' = IF ~report_flag THEN [main EXCEPT !.pc = "upload"]
               ELSE IF ok THEN [main EXCEPT !.pc = "upload",
                                            !.reported = Some(ReportCounts(results)),
                                            !.avg_latency = Some(avg_latency(results))]
               ELSE FailWith(main, "generate_report")
    /\ MainFrame

\* 7. Upload: if upload { let resolved_token = token.or_else(..)
\* .ok_or_else(..)?; upload_results(&results, &resolved_token).await? }
UploadResults(upload, token, ok) ==
    /\ main.pc = "upload"
    /\ upload \/ (token /\ ok)
    /\ token \/ ok
    /\ main' = IF ~upload THEN [main EXCEPT !.pc = "exit_code"]
               ELSE IF ~token THEN FailWith(main, "Upload requires a token")
               ELSE IF ok THEN [main EXCEPT !.pc = "exit_code",
                                            !.uploaded = Some(UploadCounts(results))]
               ELSE [FailWith(main, "upload_results")
                        EXCEPT !.uploaded = Some(UploadCounts(results))]
    /\ MainFrame

\* faulty variant: one passing result is enough for success
ExitStatusAnyPassed(rs) ==
    IF \E k \in 1..Len(rs) : rs[k].passed THEN 0 ELSE 1

\* let all_passed = results.iter().all(|r| r.passed);
\* if !all_passed { std::process::exit(1) }, else main returns Ok(())
ExitStatus(rs) ==
    LET all_passed == \A k \in 1..Len(rs) : rs[k].passed
    IN  IF all_passed THEN 0 ELSE 1

\* 8. Exit code
ExitCode ==
    /\ main.pc = "exit_code"
    /\ main' = [main EXCEPT !.pc = "exited", !.exit = Some(ExitStatus(results))]
    /\ MainFrame

\* the steps of the command once run_all_tests has returned
NextOutput ==
    \/ \E json \in BOOLEAN : OutputResults(json)
    \/ \E report_flag \in BOOLEAN, ok \in BOOLEAN : GenerateReport(report_flag, ok)
    \/ \E upload \in BOOLEAN, token \in BOOLEAN, ok \in BOOLEAN : UploadResults(upload, token, ok)
    \/ ExitCode

NextMain ==
    \/ Validate
    \/ \E ok \in BOOLEAN : CreateProvider(ok)
    \/ RunTests
    \/ NextOutput

\* the command after load_config: two slots, no filter, a first run of the
\* snapshot directory
InitMain ==
    /\ service = PlainResponses
    /\ tests \in MainConfigs \cup RejectedConfigs
    /\ filter = None
    /\ concurrency = 2
    /\ permits = concurrency
    /\ spawned = 0
    /\ cases = Submissions(SelectedTests(tests, filter))
    /\ tasks = [h \in 1..Len(cases) |-> InitTask]
    /\ results = <<>>
    /\ returned = FALSE
    /\ overtaken = FALSE
    /\ pb = ProgressBarNew(TRUE, total_cases)
    /\ SnapInit
    /\ \E no_validate \in BOOLEAN, update_snapshots \in BOOLEAN :
          /\ tests \in RejectedConfigs => ~no_validate
          /\ main = MainAt("validate", no_validate, update_snapshots)

SpecMain == InitMain /\ [][NextMain]_vars

\* the result of a case of test "ab" that answered "OK" at once
PassedResult(h) ==
    LET assertion_results ==
            EvaluateAssertions(SelectSeq(CaseAssertions(TestIdAB), from_raw_ok), OutputOK, 0,
                SnapshotKey(TestIdAB, h - 1), EmptyFs, FALSE, "none").outcomes
    IN  [kind |-> "case",
         handle |-> h,
         test_id |-> TestIdAB,
         passed |-> \A k \in 1..Len(assertion_results) : assertion_results[k].passed,
         assertions |-> assertion_results,
         error |-> None,
         latency_ms |-> h, retries |-> 0,
         tokens |-> UsageOf(OutputOK),
         cost_usd |-> calculate_cost(default_model, UsageOf(OutputOK)),
         model |-> default_model,
         output |-> Some(OutputOK)]

\* the result of a case of test "ab" whose only attempt timed out
TimedOutResult(h) ==
    [kind |-> "case",
     handle |-> h,
     test_id |-> TestIdAB,
     passed |-> FALSE,
     assertions |-> <<>>,
     error |-> Some(TimeoutMsg(DEFAULT_TIMEOUT_MS)),
     latency_ms |-> DEFAULT_TIMEOUT_MS, retries |-> 0,
     tokens |-> ZeroUsage,
     cost_usd |-> 0,
     model |-> default_model,
     output |-> None]

\* the result lists the aggregates are computed on: up to MaxResults results
\* of test "ab", each passed or failed
ResultLists ==
    UNION { { [h \in 1..n |-> IF verdicts[h] THEN PassedResult(h) ELSE TimedOutResult(h)] :
                verdicts \in [1..n -> BOOLEAN] } : n \in 0..MaxResults }

\* the command at the return of run_all_tests, for a config of one test
\* whose cases have all ended and been collected
InitAggregate ==
    /\ service = PlainResponses
    /\ results \in ResultLists
    /\ tests = <<MakeTest(TestIdAB, Len(results))>>
    /\ filter = None
    /\ concurrency = 2
    /\ permits = concurrency
    /\ cases = Submissions(tests)
    /\ spawned = Len(cases)
    /\ tasks = [h \in 1..Len(cases) |->
                  [InitTask EXCEPT !.pc = "done", !.attempts = 1, !.finished = 1,
                                   !.result = results[h],
                                   !.last = IF results[h].passed
                                            THEN [kind |-> "ok", status |-> 200, msg |-> OutputOK]
                                            ELSE [kind |-> "timeout", status |-> 0,
                                                  msg |-> TimeoutMsg(DEFAULT_TIMEOUT_MS)]]]
    /\ returned = TRUE
    /\ overtaken = FALSE
    /\ pb = ProgressInc(ProgressBarNew(TRUE, total_cases), total_cases)
    /\ SnapInit
    /\ main = MainAt("run", FALSE, FALSE)

SpecAggregate == InitAggregate /\ [][NextOutput]_vars

\* one case, one slot, a service giving every response: the retry policy alone
InitRetry ==
    /\ service = ErrorResponses
    /\ tests = <<MakeTest(TestIdAB, 1), MakeTest(TestIdB, 1)>>
    /\ filter = Some(<<"a">>)
    /\ concurrency = 1
    /\ permits = concurrency
    /\ spawned = 0
    /\ cases = Submissions(SelectedTests(tests, filter))
    /\ tasks = [h \in 1..Len(cases) |-> InitTask]
    /\ results = <<>>
    /\ returned = FALSE
    /\ overtaken = FALSE
    /\ pb = ProgressBarNew(TRUE, total_cases)
    /\ SnapInit
    /\ CalledAlone

SpecRetry == InitRetry /\ [][Next]_vars

(***************************************************************************)
(* Watch mode (watch.rs): the initial cycle, the watcher, the loop over the *)
(* change events.                                                          *)
(***************************************************************************)
\* events the channel is let to hold at a time
MaxPending == 2

\* let debounce_interval = Duration::from_millis(500)
DEBOUNCE_MS == 500

\* the step of the clock in watch mode
WatchTickMs == DEBOUNCE_MS \div 2

\* what the watched file holds when a cycle loads it: text that does not
\* parse, or a config
Unparseable == [some |-> FALSE, val |-> <<>>]
WatchedContents ==
    { Unparseable,
      Some(<<MakeTest(TestIdAB, 1)>>),
      Some(<<MakeTest(TestIdAB, 0)>>),
      Some(<<MakeTest(TestIdB, 1), MakeTest(TestIdB, 1)>>) }

\* run_watch_loop at its entry: pc is initial (before the initial run), cycle
\* (in run_cycle), setup (making the watcher), recv (in rx.recv()) or exited
WatchAt(no_validate) ==
    [pc |-> "initial",
     stage |-> "none",      \* where run_cycle is: load, validate, provider, run, report
     initial |-> FALSE,     \* the cycle under way is the initial run
     no_validate |-> no_validate,
     cfg |-> None,          \* the config the cycle loaded
     all_passed |-> FALSE,  \* whether every case of the cycle's run passed
     queue |-> <<>>,        \* what the watcher has sent and rx has not received
     sinceLast |-> 0,       \* last_run.elapsed(), in ms, up to debounce_interval
     triggered |-> FALSE,   \* ghost: a change event has started a cycle
     debounced |-> FALSE,   \* ghost: a change event was passed over
     running |-> 0,         \* ghost: the cycles under way
     outcome |-> "none",    \* ghost: how the last cycle that returned ended
     error |-> None]        \* the Err run_watch_loop returned

\* run_cycle(..) is called
CycleStarted(m, initial) ==
    [m EXCEPT !.pc = "cycle", !.stage = "load", !.initial = initial, !.cfg = None,
              !.all_passed = FALSE, !.running = m.running + 1]

\* run_cycle returns (it returns nothing): the initial run goes on to the
\* watcher's setup, a triggered one to the next rx.recv()
CycleReturned(m, outcome) ==
    [m EXCEPT !.pc = IF m.initial THEN "setup" ELSE "recv", !.stage = "none",
              !.running = m.running - 1, !.outcome = outcome]

\* the watcher exists and sends to the channel
Watching(m) == m.pc = "recv" \/ (m.pc = "cycle" /\ ~m.initial)

WatchFrame == MainFrame

\* the initial run
InitialRun ==
    /\ main.pc = "initial"
    /\ main' = CycleStarted(main, TRUE)
    /\ WatchFrame

\* 1. Load config: an error is printed and the cycle returns
CycleLoad(content) ==
    /\ main.pc = "cycle" /\ main.stage = "load"
    /\ main' = IF content.some
               THEN [main EXCEPT !.stage = "validate", !.cfg = content]
               ELSE CycleReturned(main, "load_error")
    /\ WatchFrame

\* 2. Validate: with issues, they are printed and the cycle returns
CycleValidate ==
    /\ main.pc = "cycle" /\ main.stage = "validate"
    /\ LET issues == IF main.no_validate THEN <<>> ELSE validate_config(main.cfg.val)
       IN  main' = IF issues # <<>>
                   THEN CycleReturned(main, "issues")
                   ELSE [main EXCEPT !.stage = "provider"]
    /\ WatchFrame

\* 3. Provider: an error is printed and the cycle returns
CycleProvider(ok) ==
    /\ main.pc = "cycle" /\ main.stage = "provider"
    /\ main' = IF ok THEN [main EXCEPT !.stage = "run"]
               ELSE CycleReturned(main, "provider_error")
    /\ WatchFrame

\* 4. Run, 5. Print: run_all_tests(..).await as a whole, its results printed
CycleRun(all_passed) ==
    /\ main.pc = "cycle" /\ main.stage = "run"
    /\ main' = [main EXCEPT !.stage = "report", !.all_passed = all_passed]
    /\ WatchFrame

\* 6. Report (an error is printed), 7. Upload (skipped in watch mode), and
\* the cycle returns
CycleReport(report_flag, ok) ==
    /\ main.pc = "cycle" /\ main.stage = "report"
    /\ report_flag \/ ok
    /\ main' = CycleReturned(main,
                   IF report_flag /\ ~ok THEN "report_error"
                   ELSE IF main.all_passed THEN "passed" ELSE "failed_cases")
    /\ WatchFrame

\* Setup watcher: RecommendedWatcher::new(..)?, watcher.watch(..)?, then let
\* mut last_run = Instant::now()
WatchSetup(ok) ==
    /\ main.pc = "setup"
    /\ main' = IF ok THEN [main EXCEPT !.pc = "recv", !.sinceLast = 0]
               ELSE [main EXCEPT !.pc = "exited", !.error = Some("watcher")]
    /\ WatchFrame

\* the watcher sends a change event, or an error of its own, to the channel
WatcherSends(item) ==
    /\ Watching(main)
    /\ Len(main.queue) < MaxPending
    /\ main' = [main EXCEPT !.queue = Append(main.queue, item)]
    /\ WatchFrame

\* time passes
WatchTick ==
    /\ Watching(main)
    /\ main.sinceLast < DEBOUNCE_MS
    /\ main' = [main EXCEPT !.sinceLast =
                   IF main.sinceLast + WatchTickMs > DEBOUNCE_MS THEN DEBOUNCE_MS
                   ELSE main.sinceLast + WatchTickMs]
    /\ WatchFrame

\* faulty variant: a change event starts its cycle while another is under way
AtRecvOrInCycle(m) == m.pc = "recv" \/ (m.pc = "cycle" /\ ~m.initial)

\* the loop is in rx.recv(): run_cycle(..).await has returned
AtRecv(m) == m.pc = "recv"

\* if last_run.elapsed() < debounce_interval { continue; }
Debounced(elapsed) == elapsed < DEBOUNCE_MS

\* match rx.recv(): a change event within the debounce interval is passed
\* over, another starts a cycle (last_run = Instant::now() first); an error of
\* the watcher is printed
\* (Err(_) => break needs every sender dropped, and the watcher, which holds
\* the only one, lives as long as the loop)
Recv ==
    /\ AtRecv(main)
    /\ main.queue # <<>>
    /\ LET received == [main EXCEPT !.queue = Tail(main.queue)]
       IN  main' = IF Head(main.queue) = "error" THEN received
                   ELSE IF Debounced(main.sinceLast)
                   THEN [received EXCEPT !.debounced = TRUE]
                   ELSE CycleStarted([received EXCEPT !.sinceLast = 0, !.triggered = TRUE],
                                     FALSE)
    /\ WatchFrame

NextWatch ==
    \/ InitialRun
    \/ \E content \in WatchedContents : CycleLoad(content)
    \/ CycleValidate
    \/ \E ok \in BOOLEAN : CycleProvider(ok)
    \/ \E all_passed \in BOOLEAN : CycleRun(all_passed)
    \/ \E report_flag \in BOOLEAN, ok \in BOOLEAN : CycleReport(report_flag, ok)
    \/ \E ok \in BOOLEAN : WatchSetup(ok)
    \/ \E item \in {"event", "error"} : WatcherSends(item)
    \/ WatchTick
    \/ Recv

\* watch mode at its entry, with or without --no-validate
InitWatch ==
    /\ service = PlainResponses
    /\ tests = <<>>
    /\ filter = None
    /\ concurrency = 1
    /\ permits = concurrency
    /\ spawned = 0
    /\ cases = <<>>
    /\ tasks = <<>>
    /\ results = <<>>
    /\ returned = FALSE
    /\ overtaken = FALSE
    /\ pb = ProgressBarNew(TRUE, total_cases)
    /\ SnapInit
    /\ \E no_validate \in BOOLEAN : main = WatchAt(no_validate)

SpecWatch == InitWatch /\ [][NextWatch]_vars

(***************************************************************************)
(* Properties of the scheduler.                                            *)
(***************************************************************************)
\* the cases between slot acquisition and their final outcome
InFlight == {h \in DOMAIN tasks : tasks[h].pc \in {"attempting", "sleeping"}}
AllEnded == \A h \in DOMAIN tasks : Ended(tasks[h])

\* C1: in every reachable state at most `concurrency` cases are between slot
\* acquisition and their final outcome, so at most that many attempts are in
\* flight at once.
C1_AtMostCInFlight == Cardinality(InFlight) <= concurrency

\* as many cases in flight as there are slots, while another case waits
C1_Witness ==
    /\ Cardinality(InFlight) = concurrency
    /\ \E h \in DOMAIN tasks : tasks[h].pc = "waiting"

\* the ids of the tests the filter selects, each once per case, in config order
RECURSIVE ExpectedIds(_, _)
ExpectedIds(ts, flt) ==
    IF ts = <<>> THEN <<>>
    ELSE LET t == Head(ts)
             selected == (~flt.some) \/ StrContains(t.id, flt.val)
         IN  (IF selected THEN [k \in 1..Len(t.cases) |-> t.id] ELSE <<>>)
             \o ExpectedIds(Tail(ts), flt)

\* C2: run_all_tests returns exactly one result per case of the selected
\* tests, and the i-th result is that of the i-th submitted case, whatever the
\* order in which the cases ended.
C2_OneResultPerCaseInOrder ==
    returned =>
        /\ Len(results) = Len(ExpectedIds(tests, filter))
        /\ \A i \in 1..Len(results) :
              /\ results[i].handle = i
              /\ \/ results[i].test_id = ExpectedIds(tests, filter)[i]
                 \/ tasks[i].pc = "panicked"

\* two results returned although the second case ended before the first
C2_Witness ==
    /\ returned
    /\ overtaken
    /\ Len(results) = 2
    /\ results[1].test_id = TestIdAB
    /\ results[2].test_id = TestIdB

\* C3: the slot is released on every exit path: held plus free slots are
\* always `concurrency`, exactly the cases in flight hold one, and once every
\* case has ended all slots are free.
C3_SlotsReleased ==
    /\ permits + Cardinality({h \in DOMAIN tasks : tasks[h].permit}) = concurrency
    /\ \A h \in DOMAIN tasks : tasks[h].permit <=> h \in InFlight
    /\ AllEnded => permits = concurrency

\* all ended, by a panic, a failure and a success, or two of them
C3_Witness ==
    /\ AllEnded
    /\ permits = concurrency
    /\ \E h \in DOMAIN tasks : tasks[h].pc = "panicked"
    /\ \E h \in DOMAIN tasks : tasks[h].pc = "done" /\ tasks[h].result.error.some

\* C4: a case whose task panicked does not abort the batch: the returned list
\* holds at its position a placeholder with passed = false, an error, no
\* assertions and retries = 0, and as many results as cases were submitted.
C4_PanicGivesPlaceholder ==
    /\ \A i \in 1..Len(results) :
          tasks[i].pc = "panicked" =>
              /\ results[i].passed = FALSE
              /\ results[i].error.some
              /\ results[i].error.val # <<>>
              /\ results[i].assertions = <<>>
              /\ results[i].retries = 0
    /\ returned => Len(results) = Len(cases)

\* returned, with a task that panicked after a retry and a sibling's result
C4_Witness ==
    /\ returned
    /\ \E h \in DOMAIN tasks : tasks[h].pc = "panicked" /\ tasks[h].retries > 0
    /\ \E h \in DOMAIN tasks : tasks[h].pc = "done" /\ results[h] = tasks[h].result

(***************************************************************************)
(* Properties of the retry policy.                                         *)
(***************************************************************************)
\* C5: a case makes at most 4 attempts, its retry count stays in 0..3, and
\* once it has ended (success, permanent or exhausted failure) it makes no
\* further attempt: the terminal states are absorbing.
C5_BoundedAttempts ==
    [][\A h \in DOMAIN tasks :
          /\ tasks'[h].attempts <= 4
          /\ tasks'[h].retries \in 0..3
          /\ tasks'[h].pc = "done" => tasks'[h].result.retries \in 0..3
          /\ Ended(tasks[h]) => tasks'[h] = tasks[h]]_vars

\* a case exhausted its budget: 4 attempts, 3 retries, an error
C5_Witness ==
    \E h \in DOMAIN tasks :
        /\ tasks[h].pc = "done"
        /\ tasks[h].attempts = 4
        /\ tasks[h].result.retries = 3
        /\ tasks[h].result.error.some

\* 500, 1000, 2000 ms
ScheduleMs == <<500, 1000, 2000>>

\* C6: the delay slept before retry k is 500 * 2^(k-1) ms (500, 1000, 2000 in
\* that order), and the next attempt starts only once that delay has passed.
C6_BackoffSchedule ==
    [][\A h \in DOMAIN tasks :
          /\ Len(tasks'[h].delays) = tasks'[h].retries
          /\ \A k \in 1..Len(tasks'[h].delays) : tasks'[h].delays[k] = ScheduleMs[k]
          /\ (tasks[h].pc = "attempting" /\ tasks'[h].pc = "sleeping")
                => tasks'[h].sleepLeft = ScheduleMs[tasks'[h].retries]
          /\ (tasks[h].pc = "sleeping" /\ tasks'[h].pc = "sleeping")
                => tasks'[h].sleepLeft >= tasks[h].sleepLeft - 500
          /\ tasks'[h].attempts > tasks[h].attempts /\ tasks[h].attempts >= 1
                => tasks[h].pc = "sleeping" /\ tasks[h].sleepLeft = 0]_vars

\* the fourth attempt under way, after the three delays
C6_Witness ==
    \E h \in DOMAIN tasks :
        /\ tasks[h].pc = "attempting"
        /\ tasks[h].attempts = 4
        /\ tasks[h].delays = <<500, 1000, 2000>>

\* the task's current attempt ended with an error the code classifies permanent
EndedPermanent(t) == t.last.kind \in {"error", "timeout"} /\ ~IsTransient[t.last.msg]

\* C7: a permanent error is never retried: when an attempt fails with an
\* error classified permanent, no backoff sleep and no further attempt follow
\* for that case, and that error is the one returned.
C7_PermanentNeverRetried ==
    [][\A h \in DOMAIN tasks :
          EndedPermanent(tasks'[h]) =>
              /\ tasks'[h].pc = "done"
              /\ tasks'[h].result.error = Some(tasks'[h].last.msg)
              /\ tasks'[h].delays = tasks[h].delays
              /\ tasks'[h].sleepLeft = 0
              /\ tasks'[h].attempts = tasks'[h].finished
              /\ tasks'[h].attempts = tasks[h].attempts]_vars

\* a case ended by a 400 response
C7_Witness ==
    \E h \in DOMAIN tasks :
        /\ tasks[h].pc = "done"
        /\ tasks[h].last.status = 400
        /\ EndedPermanent(tasks[h])
        /\ tasks[h].result.error.some

\* C8 as claimed: every case whose completion ends with a permanent error
\* records retries = 0, also when earlier attempts failed transiently.
C8_PermanentRecordsZero ==
    \A h \in DOMAIN tasks :
        (tasks[h].pc = "done" /\ EndedPermanent(tasks[h])) => tasks[h].result.retries = 0

\* C8, amended: a case whose completion ends with a permanent error records
\* the retries made before it, one per earlier attempt: 0 exactly when the
\* permanent error came on the first attempt.
C8_PermanentRecordsRetriesMade ==
    \A h \in DOMAIN tasks :
        (tasks[h].pc = "done" /\ EndedPermanent(tasks[h])) =>
            /\ tasks[h].result.retries = tasks[h].attempts - 1
            /\ tasks[h].result.retries = Len(tasks[h].delays)
            /\ tasks[h].result.retries = 0 <=> tasks[h].attempts = 1

\* a permanent error after two transient failures
C8_Witness ==
    \E h \in DOMAIN tasks :
        /\ tasks[h].pc = "done"
        /\ EndedPermanent(tasks[h])
        /\ tasks[h].attempts = 3
        /\ tasks[h].result.retries = 2

\* the step in which the attempt of task h is cut off by the timeout
TimesOut(h) == tasks[h].pc = "attempting" /\ tasks'[h].last.kind = "timeout"

\* C9: a timed-out attempt is handled as a transient failure of its case:
\* retried after the same backoff delay while budget remains, counted in
\* retries, and otherwise returned as the error; no other case is touched.
C9_TimeoutIsTransient ==
    [][\A h \in DOMAIN tasks :
          TimesOut(h) =>
              /\ IF tasks[h].retries < 3
                 THEN /\ tasks'[h].pc = "sleeping"
                      /\ tasks'[h].permit
                      /\ tasks'[h].retries = tasks[h].retries + 1
                      /\ tasks'[h].sleepLeft = ScheduleMs[tasks[h].retries + 1]
                      /\ tasks'[h].result = NoResult
                 ELSE /\ tasks'[h].pc = "done"
                      /\ tasks'[h].result.retries = 3
                      /\ tasks'[h].result.error.some
                      /\ tasks'[h].result.passed = FALSE
              /\ \A j \in DOMAIN tasks : j # h => tasks'[j] = tasks[j]]_vars

\* a case sleeps after its attempt timed out while a sibling's attempt runs on
C9_Witness ==
    \E h, j \in DOMAIN tasks :
        /\ h # j
        /\ tasks[h].last.kind = "timeout"
        /\ tasks[h].pc = "sleeping"
        /\ tasks[h].retries = 2
        /\ tasks[j].pc = "attempting"

\* what the classification is said to test: the status, a timeout
IndicatesTransient(last) ==
    \/ last.kind = "timeout"
    \/ last.kind = "error" /\ last.status \in {429, 500, 502, 503}

\* C10 as claimed: an error of the completion capability is classified
\* transient iff it is a 429, a 500/502/503, a timeout or a connection
\* failure; any other, a 400 or 401 whatever its body, is permanent.
C10_ClassifiedByStatus ==
    \A h \in DOMAIN tasks :
        tasks[h].last.kind \in {"error", "timeout"} =>
            (IsTransient[tasks[h].last.msg] <=> IndicatesTransient(tasks[h].last))

(***************************************************************************)
(* Reporting of the attempt sequence.                                      *)
(***************************************************************************)
\* the attempt sequence of task t ended in failure: the retry budget is
\* exhausted, or the last error is permanent
EndedInFailure(t) == t.pc = "done" /\ t.last.kind \in {"error", "timeout"}

\* C11: when a case's attempt sequence ends in failure (budget exhausted or
\* permanent error), the error of the result is the error of the last attempt
\* made, and retries is the number of retries performed (one per backoff
\* sleep, one less than the attempts made)
C11_FailureReportsLastError ==
    \A h \in DOMAIN tasks :
        EndedInFailure(tasks[h]) =>
            /\ tasks[h].result.error = Some(tasks[h].last.msg)
            /\ tasks[h].result.retries = Len(tasks[h].delays)
            /\ tasks[h].result.retries = tasks[h].attempts - 1
            /\ \/ ~IsTransient[tasks[h].last.msg]
               \/ tasks[h].result.retries = MAX_RETRIES

\* C11 witness: a second attempt, made after a transiently failed first one,
\* ended the sequence with the permanent 400, and the result carries the 400
C11_Witness ==
    \E h \in DOMAIN tasks :
        /\ EndedInFailure(tasks[h])
        /\ tasks[h].attempts = 2
        /\ tasks[h].last.status = 400
        /\ tasks[h].result.error = Some(ApiErrorMsg([status |-> 400, body |-> BodyBadPrompt]))
        /\ tasks[h].result.retries = 1

\* what the declared assertions of case h say of an output: the cases of test
\* "ab" want an "o" and no "n" ("OK" has that, "no" has not), the cases of
\* test "b" declare nothing
MeetsAssertions(h, output) == cases[h].test_id = TestIdAB => output = OutputOK

\* C12: for every case whose task returned a result, successful or failed,
\* retries is the number of attempts made minus one; after j transiently
\* failed attempts and a success the result has retries = j, no error, the
\* output of the successful attempt, and passed as the assertions on that
\* output decide, whatever j is
C12_RetriesAreAttemptsMinusOne ==
    \A h \in DOMAIN tasks :
        tasks[h].pc = "done" =>
            /\ tasks[h].result.retries = tasks[h].attempts - 1
            /\ tasks[h].result.retries = Len(tasks[h].delays)
            /\ tasks[h].last.kind = "ok" =>
                  /\ tasks[h].result.error = None
                  /\ tasks[h].result.output = Some(tasks[h].last.msg)
                  /\ tasks[h].result.passed = MeetsAssertions(h, tasks[h].last.msg)

\* C12 witness: two attempts failed transiently, the third succeeded with an
\* output that meets the assertions: retries = 2, no error, passed
C12_Witness ==
    \E h \in DOMAIN tasks :
        /\ tasks[h].pc = "done"
        /\ tasks[h].last.kind = "ok"
        /\ tasks[h].attempts = 3
        /\ cases[h].test_id = TestIdAB
        /\ tasks[h].result.retries = 2
        /\ tasks[h].result.error = None
        /\ tasks[h].result.passed

(***************************************************************************)
(* The returned results.                                                   *)
(***************************************************************************)
\* the completion of task t failed for good, or the task faulted
FailedOrFaulted(t) == EndedInFailure(t) \/ t.pc = "panicked"

\* C13: in every returned result the error is set exactly when the case's
\* completion ultimately failed or its task faulted; a result with an error
\* has passed = false, no assertion outcomes, no output, zero token counts
\* and zero cost; a result without an error carries the output of the
\* completion
C13_ErrorExcludesSuccessFields ==
    returned =>
        \A i \in 1..Len(results) :
            /\ results[i].error.some <=> FailedOrFaulted(tasks[i])
            /\ results[i].error.some =>
                  /\ results[i].passed = FALSE
                  /\ results[i].assertions = <<>>
                  /\ results[i].output = None
                  /\ results[i].tokens.prompt_tokens = 0
                  /\ results[i].tokens.completion_tokens = 0
                  /\ results[i].tokens.total_tokens = 0
                  /\ results[i].cost_usd = 0
            /\ ~results[i].error.some =>
                  /\ tasks[i].last.kind = "ok"
                  /\ results[i].output = Some(tasks[i].last.msg)

\* C13 witness: a returned run with a result that has an error and a result
\* that has none and carries output, usage and cost
C13_Witness ==
    /\ returned
    /\ \E i, j \in 1..Len(results) :
          /\ results[i].error.some
          /\ EndedInFailure(tasks[i])
          /\ ~results[j].error.some
          /\ results[j].output = Some(OutputOK)
          /\ results[j].tokens.total_tokens = 40
          /\ results[j].cost_usd > 0

\* the completion of task t succeeded and the task returned its result
Succeeded(t) == t.pc = "done" /\ t.last.kind = "ok"

\* C14: for a case whose completion succeeded, passed holds exactly when
\* every assertion outcome in its list passed; a successful case with zero
\* assertions passes
C14_PassedIffAllAssertionsPassed ==
    \A h \in DOMAIN tasks :
        Succeeded(tasks[h]) =>
            LET r == tasks[h].result
            IN  /\ r.passed <=> (\A k \in 1..Len(r.assertions) : r.assertions[k].passed)
                /\ r.assertions = <<>> => r.passed

\* C14 witness: a successful case with one passed and one failed assertion
\* that is not passed, next to a successful case without assertions that is
C14_Witness ==
    \E h, j \in DOMAIN tasks :
        /\ Succeeded(tasks[h])
        /\ Len(tasks[h].result.assertions) = 2
        /\ tasks[h].result.assertions[1].passed
        /\ ~tasks[h].result.assertions[2].passed
        /\ ~tasks[h].result.passed
        /\ Succeeded(tasks[j])
        /\ tasks[j].result.assertions = <<>>
        /\ tasks[j].result.passed

(***************************************************************************)
(* Isolation and progress.                                                 *)
(***************************************************************************)
\* the result of the case of task h is the one its own attempts give
OwnResult(h) ==
    LET t == tasks[h]
        r == t.result
    IN  /\ r.test_id = cases[h].test_id
        /\ r.retries = Len(t.delays)
        /\ r.error = IF t.last.kind = "ok" THEN None ELSE Some(t.last.msg)
        /\ r.output = IF t.last.kind = "ok" THEN Some(t.last.msg) ELSE None
        /\ r.passed = (t.last.kind = "ok" /\ MeetsAssertions(h, t.last.msg))

\* a failed or faulted case holds no slot, a waiting case can take a slot
\* whenever fewer than concurrency cases are in flight, and the result of a
\* case is the one its own attempts give
IsolatedState ==
    /\ \A h \in DOMAIN tasks : FailedOrFaulted(tasks[h]) => ~tasks[h].permit
    /\ Cardinality(InFlight) < concurrency => CanAcquire(permits)
    /\ \A h \in DOMAIN tasks : tasks[h].pc = "done" => OwnResult(h)

\* the step in which a case fails or faults changes no other task
IsolatedStep ==
    \A h \in DOMAIN tasks :
        (~Ended(tasks[h]) /\ FailedOrFaulted(tasks'[h])) =>
            \A j \in DOMAIN tasks \ {h} : tasks'[j] = tasks[j]

C16_EveryCaseFinishes ==
    <>(/\ returned
       /\ Len(results) = total_cases
       /\ \A h \in DOMAIN tasks : Ended(tasks[h]) /\ tasks[h].attempts >= 1)

\* C16 witness: a returned run of two cases over one slot, in which the case
\* submitted second had to wait for the slot and both made their attempts
C16_Witness ==
    /\ returned
    /\ concurrency = 1
    /\ total_cases = 2
    /\ Len(results) = 2
    /\ \A h \in DOMAIN tasks : Ended(tasks[h]) /\ tasks[h].attempts >= 1

(***************************************************************************)
(* The snapshot store.                                                     *)
(***************************************************************************)
\* the last check_snapshot call ran in the given mode and met no I/O failure
Evaluated(update) ==
    snapCall.kind = "call" /\ snapCall.update = update /\ snapCall.fault = "none"

\* C17: with update = true (and no I/O failure), check_snapshot writes the
\* record of the key with the current output, whatever the record was
\* before (absent, equal or different), and reports pass with detail
\* "updated"
C17_UpdateAlwaysRewrites ==
    Evaluated(TRUE) =>
        /\ snapFs.dir
        /\ snapFs.files[snapCall.key] = Some(snapCall.output)
        /\ snapCall.passed
        /\ snapCall.detail = "updated"

\* C17 witness: an update over a record that held another text
C17_Witness ==
    /\ Evaluated(TRUE)
    /\ snapCall.before = Some(<<"b">>)
    /\ snapCall.output = <<"a", " ">>
    /\ snapFs.files[snapCall.key] = Some(<<"a", " ">>)
    /\ snapCall.passed
    /\ snapCall.detail = "updated"

\* C18: with update = false and no record for the key (and no I/O failure),
\* check_snapshot creates the record from the current output and reports
\* pass with detail "created (first run)"; after it returns, the record of
\* the key exists
C18_FirstRunCreates ==
    (Evaluated(FALSE) /\ ~snapCall.before.some) =>
        /\ snapFs.dir
        /\ snapFs.files[snapCall.key].some
        /\ snapFs.files[snapCall.key] = Some(snapCall.output)
        /\ snapCall.passed
        /\ snapCall.detail = "created (first run)"

\* C18 witness: the first evaluation in an empty snapshot directory
C18_Witness ==
    /\ Evaluated(FALSE)
    /\ ~snapCall.before.some
    /\ snapFs.files[snapCall.key] = Some(<<"\n", "a">>)
    /\ \A k \in SnapKeys \ {snapCall.key} : ~snapFs.files[k].some
    /\ snapCall.detail = "created (first run)"

\* C19: once a first evaluation of a fresh key has created the record from
\* output o, every later evaluation with update = false and output o' (no
\* update having replaced the record, no I/O failure) passes exactly when
\* trim(o') = trim(o), however often it is repeated: the record still holds o
C19_SnapshotIdempotence ==
    \A key \in SnapKeys :
        snapBaseline[key].some =>
            /\ snapFs.files[key] = snapBaseline[key]
            /\ (Evaluated(FALSE) /\ snapCall.key = key) =>
                  /\ snapCall.passed <=> Trim(snapCall.output) = Trim(snapBaseline[key].val)
                  /\ snapCall.passed =>
                        snapCall.detail \in {"created (first run)", "matches saved snapshot"}

\* C19 witness: the record was created from "a " and a later evaluation with
\* the output "\na", equal to it once trimmed, passed
C19_Witness ==
    \E key \in SnapKeys :
        /\ snapBaseline[key] = Some(<<"a", " ">>)
        /\ Evaluated(FALSE)
        /\ snapCall.key = key
        /\ snapCall.before = Some(<<"a", " ">>)
        /\ snapCall.output = <<"\n", "a">>
        /\ snapCall.passed
        /\ snapCall.detail = "matches saved snapshot"

\* C20: a record is overwritten only under update mode: an evaluation with
\* update = false leaves the content of every existing record unchanged,
\* whether it passes or fails, at every step of any sequence of evaluations
C20_OverwrittenOnlyUnderUpdate ==
    [][(snapCall'.kind = "call" /\ ~snapCall'.update) =>
          \A key \in SnapKeys :
              snapFs.files[key].some => snapFs'.files[key] = snapFs.files[key]]_vars

\* C20 witness: an evaluation with update = false failed against a record
\* with another text, and the record still holds that text
C20_Witness ==
    /\ Evaluated(FALSE)
    /\ snapCall.before = Some(<<"a">>)
    /\ snapCall.output = <<"b">>
    /\ ~snapCall.passed
    /\ snapCall.detail = "differs from snapshot"
    /\ snapFs.files[snapCall.key] = Some(<<"a">>)

(***************************************************************************)
(* The assertion evaluator.                                                *)
(***************************************************************************)
\* the last evaluation was of a case whose first assertion is a snapshot, and
\* the file system failed that check
SnapshotIoFailed ==
    /\ evalCall.kind = "call"
    /\ evalCall.assertions[1].kind = "snapshot"
    /\ evalCall.fault # "none"

\* the detail that names the failed operation and carries its I/O error
IoFailureDetail(fault) ==
    CASE fault = "create_dir" -> "failed to create snapshot dir: Permission denied (os error 13)"
      [] fault = "write" -> "failed to write snapshot: Permission denied (os error 13)"
      [] fault = "read" -> "failed to read snapshot: Input/output error (os error 5)"

\* C21: a file system failure during a snapshot check (directory not made,
\* file not written, file not read) gives an outcome with passed = false and
\* the I/O error in its detail; nothing is raised: the assertions after it
\* are still evaluated, and the case has its outcome list and its verdict
C21_SnapshotIoFailureReported ==
    SnapshotIoFailed =>
        /\ Len(evalCall.outcomes) = Len(evalCall.assertions)
        /\ evalCall.outcomes[1].label = "snapshot"
        /\ evalCall.outcomes[1].passed = FALSE
        /\ evalCall.outcomes[1].detail = IoFailureDetail(evalCall.fault)
        /\ evalCall.outcomes[2].label = "contains"
        /\ evalCall.outcomes[2].passed <=> evalCall.output \in {<<"a">>, <<"a", " ">>}
        /\ evalCall.all_passed = FALSE
        /\ snapFs.files[evalCall.key] = evalCall.before

\* C21 witness: the write of a first-run record failed, the outcome says so,
\* and the text assertion after it was evaluated and passed
C21_Witness ==
    /\ SnapshotIoFailed
    /\ evalCall.fault = "write"
    /\ ~evalCall.update
    /\ ~evalCall.outcomes[1].passed
    /\ evalCall.outcomes[1].detail = "failed to write snapshot: Permission denied (os error 13)"
    /\ evalCall.outcomes[2].passed
    /\ ~evalCall.all_passed

\* the last call of check_snapshot wrote the record of its key: under update
\* mode, or as the first run of the key
RecordWritten ==
    /\ snapCall.kind = "call"
    /\ snapCall.fault = "none"
    /\ snapCall.update \/ ~snapCall.before.some

\* C22 as stated: every record written (first run or update mode) holds
\* exactly trim(output)
C22_RecordHoldsTrimmedOutput ==
    RecordWritten => snapFs.files[snapCall.key] = Some(Trim(snapCall.output))

\* C22: every record written (first run or update mode) holds the accepted
\* output as it is, surrounding whitespace included and nothing added; it
\* is the trimmed record that equals trim(output)
C22_RecordHoldsOutputVerbatim ==
    RecordWritten =>
        /\ snapFs.files[snapCall.key].some
        /\ snapFs.files[snapCall.key].val = snapCall.output
        /\ Trim(snapFs.files[snapCall.key].val) = Trim(snapCall.output)

\* C22 witness: a first run whose output ends in whitespace left a record
\* that is not the trimmed output
C22_Witness ==
    /\ RecordWritten
    /\ ~snapCall.update
    /\ snapCall.output = <<"a", " ">>
    /\ snapFs.files[snapCall.key].val = <<"a", " ">>
    /\ Trim(snapCall.output) = <<"a">>

\* two characters are the same letter, whatever their case
SameLetter(c, d) ==
    \/ c = d
    \/ {c, d} \in {{"H", "h"}, {"O", "o"}, {"K", "k"}}

\* text s occurs in the output, compared case-insensitively
OccursIgnoringCase(output, s) ==
    \E k \in 0..(Len(output) - Len(s)) :
        \A j \in 1..Len(s) : SameLetter(output[k + j], s[j])

\* the last evaluation was of a case asserting Contains(s) then NotContains(s)
TextEvaluated ==
    /\ evalCall.kind = "call"
    /\ Len(evalCall.assertions) = 2
    /\ evalCall.assertions[1].kind = "contains"
    /\ evalCall.assertions[2].kind = "not-contains"
    /\ evalCall.assertions[1].value = evalCall.assertions[2].value

\* C26: Contains(s) passes exactly when the output contains s compared
\* case-insensitively, and NotContains(s) passes exactly when Contains(s)
\* fails
C26_ContainsComplementary ==
    TextEvaluated =>
        /\ evalCall.outcomes[1].passed
             <=> OccursIgnoringCase(evalCall.output, evalCall.assertions[1].value)
        /\ evalCall.outcomes[2].passed <=> ~evalCall.outcomes[1].passed
        /\ evalCall.outcomes[1].detail
             = IF evalCall.outcomes[1].passed THEN "found in output" ELSE "NOT found in output"
        /\ evalCall.outcomes[2].detail
             = IF evalCall.outcomes[2].passed THEN "correctly absent from output"
               ELSE "unexpectedly found in output"

\* C26 witness: "o" is found in "OK" although the case differs, and
\* NotContains("o") fails on the same output
C26_Witness ==
    /\ TextEvaluated
    /\ evalCall.output = <<"O", "K">>
    /\ evalCall.assertions[1].value = <<"o">>
    /\ evalCall.outcomes[1].passed
    /\ ~evalCall.outcomes[2].passed
    /\ evalCall.outcomes[2].detail = "unexpectedly found in output"

\* the last evaluation was of a case asserting LatencyMax(ms)
LatencyEvaluated ==
    /\ evalCall.kind = "call"
    /\ Len(evalCall.assertions) = 1
    /\ evalCall.assertions[1].kind = "latency_max"

\* how a detail reports a latency
ReportedLatency(ms) ==
    CASE ms = 0 -> "actual: 0ms"
      [] ms = 999 -> "actual: 999ms"
      [] ms = 1000 -> "actual: 1000ms"
      [] ms = 1001 -> "actual: 1001ms"
      [] ms = 3000 -> "actual: 3000ms"

\* C27: LatencyMax(ms) passes if and only if the measured latency is at most
\* ms, the bound included, and the detail reports the measured latency
\* whether the assertion passed or failed
C27_LatencyMaxInclusive ==
    LatencyEvaluated =>
        /\ evalCall.outcomes[1].passed
             <=> ~(evalCall.latency_ms > evalCall.assertions[1].value)
        /\ evalCall.outcomes[1].detail = ReportedLatency(evalCall.latency_ms)
        /\ evalCall.all_passed <=> evalCall.outcomes[1].passed

\* C27 witness: a latency equal to the bound has passed, reporting itself
C27_Witness ==
    /\ LatencyEvaluated
    /\ evalCall.assertions[1].value = 1000
    /\ evalCall.latency_ms = 1000
    /\ evalCall.outcomes[1].passed
    /\ evalCall.outcomes[1].detail = "actual: 1000ms"

\* LatencyMax(1000) against a measured 3000 has failed, reporting the 3000
C27_FailReportsLatency ==
    /\ LatencyEvaluated
    /\ evalCall.assertions[1].value = 1000
    /\ evalCall.latency_ms = 3000
    /\ ~evalCall.outcomes[1].passed
    /\ evalCall.outcomes[1].detail = "actual: 3000ms"

\* the last evaluation was of a case asserting MinLength(n) then MaxLength(n)
LengthEvaluated ==
    /\ evalCall.kind = "call"
    /\ Len(evalCall.assertions) = 2
    /\ evalCall.assertions[1].kind = "min_length"
    /\ evalCall.assertions[2].kind = "max_length"

\* the character count of the trimmed output, each character counted once
CharCount(output) == Len(Trim(output))

\* how a detail reports a length
ReportedLength(n) ==
    CASE n = 0 -> "actual: 0 chars"
      [] n = 1 -> "actual: 1 chars"
      [] n = 2 -> "actual: 2 chars"
      [] n = 3 -> "actual: 3 chars"
      [] n = 4 -> "actual: 4 chars"
      [] n = 8 -> "actual: 8 chars"

\* C28: MinLength(n) passes iff the character count of the trimmed output is
\* at least n, MaxLength(n) iff it is at most n (bounds included, the
\* whitespace around not counted, a character counted once whatever its
\* encoded width), and the detail reports that count
C28_LengthCountsCharacters ==
    LengthEvaluated =>
        /\ evalCall.outcomes[1].passed
             <=> CharCount(evalCall.output) >= evalCall.assertions[1].value
        /\ evalCall.outcomes[2].passed
             <=> CharCount(evalCall.output) <= evalCall.assertions[2].value
        /\ evalCall.outcomes[1].detail = ReportedLength(CharCount(evalCall.output))
        /\ evalCall.outcomes[2].detail = ReportedLength(CharCount(evalCall.output))

\* what holds of the code instead: the same with the length in bytes
C28_LengthCountsBytes ==
    LengthEvaluated =>
        /\ evalCall.outcomes[1].passed
             <=> ByteLen(Trim(evalCall.output)) >= evalCall.assertions[1].value
        /\ evalCall.outcomes[2].passed
             <=> ByteLen(Trim(evalCall.output)) <= evalCall.assertions[2].value
        /\ evalCall.outcomes[1].detail = ReportedLength(ByteLen(Trim(evalCall.output)))
        /\ evalCall.outcomes[2].detail = ReportedLength(ByteLen(Trim(evalCall.output)))

\* MaxLength(1) has failed on the one character "é", reported as 2 chars
C28_TwoByteCharacterFails ==
    /\ LengthEvaluated
    /\ evalCall.output = <<"é">>
    /\ evalCall.assertions[2].value = 1
    /\ ~evalCall.outcomes[2].passed
    /\ evalCall.outcomes[2].detail = "actual: 2 chars"

\* MaxLength(3) has failed on "too long", reported as 8 chars
C28_TooLongFails ==
    /\ LengthEvaluated
    /\ evalCall.output = <<"t", "o", "o", " ", "l", "o", "n", "g">>
    /\ evalCall.assertions[2].value = 3
    /\ ~evalCall.outcomes[2].passed
    /\ evalCall.outcomes[2].detail = "actual: 8 chars"

(***************************************************************************)
(* The execution slot of a case.                                           *)
(***************************************************************************)
\* one step of task h as far as its slot goes: taken only by a task that has
\* made no attempt, in the step that starts the first one; kept while the
\* task attempts or sleeps; given up only in the step that ends the task,
\* which is the step that builds its result; never taken again
SlotStep(h) ==
    /\ (~tasks[h].permit /\ tasks'[h].permit) =>
          /\ tasks[h].pc = "waiting"
          /\ tasks[h].attempts = 0
          /\ tasks'[h].attempts = 1
          /\ permits' = permits - 1
    /\ (tasks[h].permit /\ ~tasks'[h].permit) =>
          /\ Ended(tasks'[h])
          /\ permits' = permits + 1
    /\ tasks'[h].pc \in {"attempting", "sleeping"} => tasks'[h].permit
    /\ tasks'[h].attempts > tasks[h].attempts => tasks'[h].permit
    /\ tasks'[h].result # tasks[h].result => tasks[h].permit
    /\ Ended(tasks[h]) => ~tasks'[h].permit

\* C30: a case acquires its execution slot exactly once, before its first
\* attempt, and holds it through every attempt, every backoff sleep and the
\* evaluation of its assertions; it never gives the slot up and takes it
\* again between attempts
C30_SlotHeldThroughout == [][\A h \in Handles : SlotStep(h)]_vars

\* C30 witness: a case sleeps before its third retry, still holding the only
\* slot, while another case waits for it
C30_Witness ==
    /\ concurrency = 1
    /\ \E h \in Handles, w \in Handles :
          /\ tasks[h].pc = "sleeping"
          /\ tasks[h].retries = 3
          /\ tasks[h].attempts = 3
          /\ tasks[h].permit
          /\ permits = 0
          /\ tasks[w].pc = "waiting"

(***************************************************************************)
(* The run command.                                                        *)
(***************************************************************************)
\* two tests of the configuration share an id
SharedIds(cfg) == {cfg[i].id : i \in {i \in 1..Len(cfg) : \E j \in 1..Len(cfg) : j # i /\ cfg[j].id = cfg[i].id}}

\* the configuration has something validation objects to
Objectionable(cfg) ==
    \/ cfg = <<>>
    \/ SharedIds(cfg) # {}
    \/ \E i \in 1..Len(cfg) :
          \/ cfg[i].cases = <<>>
          \/ \E c \in 1..Len(cfg[i].cases) : cfg[i].cases[c].assertions = <<>>

\* no completion request was issued: no task was spawned, no attempt started
NoRequestIssued ==
    /\ spawned = 0
    /\ \A h \in Handles : tasks[h].pc = "unspawned" /\ tasks[h].attempts = 0
    /\ results = <<>>
    /\ ~returned

\* the command has validated its configuration
Validated == main.pc # "validate" /\ ~main.no_validate

\* C29: validate_config reports a "Duplicate test ID" issue for every id two
\* tests of the config share, and the run command, unless --no-validate is
\* given, exits with failure before any completion request is issued when
\* validation reports any issue
C29_ValidationStopsRun ==
    /\ Validated =>
          \A id \in SharedIds(tests) :
             \E k \in 1..Len(main.issues) :
                main.issues[k].issue = "Duplicate test ID" /\ main.issues[k].test_id = id
    /\ (Validated /\ Objectionable(tests)) => main.issues # <<>>
    /\ main.issues # <<>> =>
          /\ main.pc = "exited"
          /\ main.exit = Some(1)
          /\ NoRequestIssued

\* C29 witness: a configuration with the same id first and third was
\* validated: the command has exited with failure on the duplicate, nothing
\* spawned
C29_Witness ==
    /\ Len(tests) = 3
    /\ tests[1].id = tests[3].id
    /\ tests[1].id # tests[2].id
    /\ main.pc = "exited"
    /\ main.exit = Some(1)
    /\ main.issues = <<Issue("Duplicate test ID", TestIdAB, 0)>>
    /\ NoRequestIssued

\* with --no-validate the same test twice is run, and requests are issued
C29_NoValidateRuns ==
    /\ main.no_validate
    /\ SharedIds(tests) # {}
    /\ main.issues = <<>>
    /\ \E h \in Handles : tasks[h].attempts > 0

\* the command has ended after run_all_tests returned its results
EndedAfterRun == main.pc = "exited" /\ returned

EveryResultPassed == \A k \in 1..Len(results) : results[k].passed

\* C25 as stated: the command signals success if and only if every returned
\* result passed
C25_SuccessIffEveryResultPassed ==
    EndedAfterRun => (main.exit = Some(0) <=> EveryResultPassed)

\* C25: the command exits with failure whenever a returned result has
\* passed = false (error and placeholder results included); it signals
\* success exactly when every result passed and no step after the run (the
\* report, the upload) returned an error
C25_FailureWheneverAResultFailed ==
    EndedAfterRun =>
        /\ ~EveryResultPassed => main.exit = Some(1)
        /\ main.exit = Some(0) <=> (EveryResultPassed /\ ~main.error.some)
        /\ main.exit \in {Some(0), Some(1)}

\* C25 witness: the only case panicked, its placeholder result was returned,
\* report and upload went through, and the command exited with failure
C25_Witness ==
    /\ EndedAfterRun
    /\ Len(results) = 1
    /\ results[1] = PlaceholderResult(1)
    /\ main.reported.some
    /\ main.uploaded.some
    /\ ~main.error.some
    /\ main.exit = Some(1)

\* every result passed, the report could not be written: failure all the same
C25_PassedButReportFailed ==
    /\ EndedAfterRun
    /\ Len(results) = 2
    /\ EveryResultPassed
    /\ main.error = Some("generate_report")
    /\ main.exit = Some(1)

\* every result passed and nothing failed after the run: success
C25_Success ==
    /\ EndedAfterRun
    /\ Len(results) = 2
    /\ EveryResultPassed
    /\ main.uploaded.some
    /\ main.exit = Some(0)

RECURSIVE NumPassing(_)
\* how many results of the list passed
NumPassing(rs) ==
    IF rs = <<>> THEN 0
    ELSE (IF Head(rs).passed THEN 1 ELSE 0) + NumPassing(Tail(rs))

RECURSIVE NumFailing(_)
\* how many results of the list did not pass
NumFailing(rs) ==
    IF rs = <<>> THEN 0
    ELSE (IF Head(rs).passed THEN 0 ELSE 1) + NumFailing(Tail(rs))

\* the three numbers c are those of the result list
CountsAgree(c) ==
    c.some =>
        /\ c.val.total = Len(results)
        /\ c.val.passed = NumPassing(results)
        /\ c.val.failed = NumFailing(results)
        /\ c.val.failed = c.val.total - c.val.passed
        /\ c.val.passed + c.val.failed = c.val.total

\* C24: for any result list, total is the number of results, passed the
\* number of results with passed = true, failed = total - passed, so that
\* passed + failed = total; the terminal summary, the HTML report and the
\* upload payload hold the same three numbers
C24_AggregateCounts ==
    /\ CountsAgree(main.printed)
    /\ CountsAgree(main.reported)
    /\ CountsAgree(main.uploaded)
    /\ \A c, d \in {main.printed, main.reported, main.uploaded} :
          (c.some /\ d.some) => c = d

\* C24 witness: ten results of which seven passed were printed, reported and
\* uploaded as total 10, passed 7, failed 3
C24_Witness ==
    /\ Len(results) = 10
    /\ NumPassing(results) = 7
    /\ main.printed = Some([total |-> 10, passed |-> 7, failed |-> 3])
    /\ main.reported = Some([total |-> 10, passed |-> 7, failed |-> 3])
    /\ main.uploaded = Some([total |-> 10, passed |-> 7, failed |-> 3])

(***************************************************************************)
(* The snapshot store under concurrent cases.                              *)
(***************************************************************************)
\* the snapshot key of the case of handle h
KeyOf(h) == SnapshotKey(cases[h].test_id, cases[h].ci)

\* case h is inside check_snapshot: it has looked whether its record exists
\* and has not yet written or read it
InCheck(h) == tasks[h].pc = "checking"

\* the check of case h found no record and created one
CreatedRecord(h) ==
    /\ tasks[h].pc = "done"
    /\ \E k \in 1..Len(tasks[h].result.assertions) :
          /\ tasks[h].result.assertions[k].label = "snapshot"
          /\ tasks[h].result.assertions[k].detail = "created (first run)"

\* the cases submitted so far have keys of their own; no two cases are inside
\* the check of one file at once; no record was created twice
KeysUniqueInRun ==
    \A h \in 1..spawned, k \in 1..spawned :
        h # k =>
            /\ KeyOf(h) # KeyOf(k)
            /\ ~(InCheck(h) /\ InCheck(k) /\ KeyOf(h) = KeyOf(k))
            /\ ~(CreatedRecord(h) /\ CreatedRecord(k) /\ KeyOf(h) = KeyOf(k))

\* C23 as stated: within any run each case's snapshot key is unique, so no
\* two concurrently executing cases check and write the same snapshot file,
\* and no two cases both find no record for a key and both write it
C23_KeysUniqueInEveryRun == KeysUniqueInRun

\* C23: within a run whose tests have ids of their own (which validation
\* sees to, unless --no-validate is given) each case's snapshot key is
\* unique, no two concurrently executing cases check and write the same
\* snapshot file, and no two cases both find no record for a key and both
\* write it
C23_KeysUniqueForDistinctIds ==
    (SharedIds(tests) = {} \/ ~main.no_validate) => KeysUniqueInRun

\* C23 witness: the two cases of one test are inside the snapshot check at
\* once, each having found no record, each on the file of its own key
C23_Witness ==
    /\ SharedIds(tests) = {}
    /\ spawned = 2
    /\ InCheck(1) /\ InCheck(2)
    /\ ~tasks[1].exists /\ ~tasks[2].exists
    /\ KeyOf(1) # KeyOf(2)

\* with --no-validate and the same test twice: both cases found no record
\* for the one key, both wrote it, and the record is what the second wrote
C23_BothCreated ==
    /\ main.no_validate
    /\ spawned = 2
    /\ KeyOf(1) = KeyOf(2)
    /\ CreatedRecord(1) /\ CreatedRecord(2)
    /\ tasks[1].result.output # tasks[2].result.output
    /\ tasks[1].result.passed /\ tasks[2].result.passed
    /\ snapFs.files[KeyOf(1)] \in {tasks[1].result.output, tasks[2].result.output}

(***************************************************************************)
(* Backoff and the other cases.                                            *)
(***************************************************************************)
\* case h is in the time::sleep of its backoff
InBackoff(h) == tasks[h].pc = "sleeping"

\* case k can take its next step: start, end its attempt, or wake up
CanStart(k) == ENABLED Acquire(k)
CanEndAttempt(k) == (ENABLED AttemptTimeout(k)) /\ (ENABLED AttemptOk(k, OutputOK))
CanWake(k) == ENABLED Wake(k)

\* C31 as stated: while a case sleeps in backoff, no other case is kept
\* from starting or from continuing its attempts
C31_BackoffDelaysNobody ==
    \A h \in Handles, k \in Handles :
        (h # k /\ InBackoff(h)) =>
            /\ tasks[k].pc = "waiting" => CanStart(k)
            /\ tasks[k].pc = "attempting" => CanEndAttempt(k)

\* C31: a backoff sleep suspends only the sleeping case's own task: while a
\* case sleeps, every other case that holds a slot goes on with its
\* attempts and its own sleeps, and a waiting case starts exactly when a
\* slot is free; the sleeping case keeps its slot, so a waiting case that
\* cannot start finds every slot held
C31_BackoffSuspendsOwnTaskOnly ==
    \A h \in Handles, k \in Handles :
        (h # k /\ InBackoff(h)) =>
            /\ tasks[k].pc = "attempting" => CanEndAttempt(k)
            /\ (tasks[k].pc = "sleeping" /\ tasks[k].sleepLeft = 0) => CanWake(k)
            /\ tasks[k].pc = "waiting" => (CanStart(k) <=> permits > 0)
            /\ (tasks[k].pc = "waiting" /\ ~CanStart(k)) =>
                  /\ tasks[h].permit
                  /\ Cardinality({j \in Handles : tasks[j].permit}) = concurrency

\* C31 witness: one case sleeps in backoff with time left, a slot is free,
\* and the other case, waiting, can start
C31_Witness ==
    \E h \in Handles, k \in Handles :
        /\ InBackoff(h)
        /\ tasks[h].sleepLeft > 0
        /\ tasks[k].pc = "waiting"
        /\ permits > 0
        /\ CanStart(k)

\* over one slot, the case that waits cannot start while the other sleeps
C31_WaitsForSleeper ==
    \E h \in Handles, k \in Handles :
        /\ concurrency = 1
        /\ InBackoff(h)
        /\ tasks[h].sleepLeft > 0
        /\ tasks[k].pc = "waiting"
        /\ ~CanStart(k)

(***************************************************************************)
(* The outcome list of a successful case.                                  *)
(***************************************************************************)
\* the task of case h returned the result of a successful completion
CompletionSucceeded(h) == tasks[h].pc = "done" /\ ~tasks[h].result.error.some

\* C32: for a case whose completion succeeds, the result's assertion list
\* holds exactly one outcome per assertion declared on the case, in
\* declaration order
C32_OneOutcomePerDeclaredAssertion ==
    \A h \in Handles :
        CompletionSucceeded(h) =>
            /\ Len(tasks[h].result.assertions) = Len(cases[h].assertions)
            /\ \A k \in 1..Len(cases[h].assertions) :
                  tasks[h].result.assertions[k].label = cases[h].assertions[k].kind

\* what holds of the code instead: one outcome per declared assertion that
\* from_raw accepts, in declaration order
C32_OneOutcomePerParsedAssertion ==
    \A h \in Handles :
        CompletionSucceeded(h) =>
            LET parsed == SelectSeq(cases[h].assertions, from_raw_ok)
            IN  /\ Len(tasks[h].result.assertions) = Len(parsed)
                /\ \A k \in 1..Len(parsed) :
                      tasks[h].result.assertions[k].label = parsed[k].kind

\* a validated run of the case with the placeholder: two assertions
\* declared, one outcome, passed
C32_DeclaredAssertionDropped ==
    /\ total_cases = 1
    /\ ~main.no_validate
    /\ main.issues = <<>>
    /\ CompletionSucceeded(1)
    /\ Len(cases[1].assertions) = 2
    /\ cases[1].assertions[1].kind = "latency_max"
    /\ Len(tasks[1].result.assertions) = 1
    /\ tasks[1].result.assertions[1].label = "contains"
    /\ tasks[1].result.passed

\* a successful case of test "ab": two declared, two outcomes in order
C32_AllDeclaredEvaluated ==
    /\ total_cases = 1
    /\ CompletionSucceeded(1)
    /\ cases[1].test_id = TestIdAB
    /\ Len(tasks[1].result.assertions) = 2
    /\ tasks[1].result.assertions[1].label = "contains"
    /\ tasks[1].result.assertions[2].label = "not-contains"

(***************************************************************************)
(* The snapshot key of a case.                                             *)
(***************************************************************************)
\* the tests of the config that the filter lets through, by their place in
\* the config
SelectedPlaces == {t \in 1..Len(tests) : FilterMatches(tests[t], filter)}

RECURSIVE CasesBefore(_)
\* how many cases the selected tests before place t submit
CasesBefore(t) ==
    IF t = 1 THEN 0
    ELSE CasesBefore(t - 1)
         + (IF (t - 1) \in SelectedPlaces THEN Len(tests[t - 1].cases) ELSE 0)

\* handle h is the case at position i (from 0) of the test at place t
IsCaseOf(h, t, i) ==
    /\ t \in SelectedPlaces
    /\ i \in 0..(Len(tests[t].cases) - 1)
    /\ h = CasesBefore(t) + i + 1

\* the key as text, for the positions the configurations have
KeyText(id, i) ==
    id \o <<"_", "c", "a", "s", "e">>
       \o <<(CASE i = 0 -> "0" [] i = 1 -> "1" [] i = 2 -> "2" [] i = 3 -> "3")>>

\* C33: the snapshot key of a case is a function of its test's id and of its
\* position within that test only; whatever the filter, the concurrency
\* limit, the order of completion and the other tests of the config, the
\* case at position i of test id has the key "<id>_case<i>"
C33_KeyFromIdAndPosition ==
    \A h \in Handles :
        \E t \in 1..Len(tests), i \in 0..MaxCasesAB :
            /\ IsCaseOf(h, t, i)
            /\ KeyOf(h) = KeyText(tests[t].id, i)

\* C33 witness: with test "ab" filtered out of the way or holding no case,
\* and with the run over, the case of test "b", submitted first, has the key
\* "b_case0" that it has as the second test's case in an unfiltered run
C33_Witness ==
    /\ returned
    /\ total_cases = 1
    /\ Len(tests) = 2
    /\ IsCaseOf(1, 2, 0)
    /\ KeyOf(1) = <<"b", "_", "c", "a", "s", "e", "0">>

\* the same case as the last of an unfiltered run of both tests, with more
\* than one slot, has the same key
C33_SameKeyAmongOthers ==
    /\ returned
    /\ total_cases >= 2
    /\ concurrency > 1
    /\ IsCaseOf(total_cases, 2, 0)
    /\ KeyOf(total_cases) = <<"b", "_", "c", "a", "s", "e", "0">>

(***************************************************************************)
(* The progress bar.                                                       *)
(***************************************************************************)
\* the cases whose task has returned a result
Produced == {h \in Handles : tasks[h].pc = "done"}

\* what task h returns, from how its last attempt ended and the retries made
ResultOf(h) ==
    IF tasks[h].last.kind = "ok"
    THEN SuccessResult(h, tasks[h].retries, tasks[h].last.msg)
    ELSE FailureResult(h, tasks[h].retries, tasks[h].last.msg)

\* the results collected so far are those of the tasks, in submission order
ResultsOfTasks ==
    \A k \in 1..Len(results) :
        results[k] = IF tasks[k].pc = "done" THEN ResultOf(k) ELSE PlaceholderResult(k)

\* C34: the progress counter stands at the number of cases whose task has
\* produced a result (one increment each, none lost, whatever the tasks'
\* interleaving); it never exceeds the number of submitted cases; it is N
\* when the batch has ended without a task fault; and the results are those
\* of the tasks whether the bar is there or not
C34_ProgressCountsResults ==
    /\ pb.some => /\ pb.val = Cardinality(Produced)
                  /\ pb.val <= total_cases
                  /\ (returned /\ Produced = Handles) => pb.val = total_cases
    /\ ResultsOfTasks

\* C34 witness: two tasks ran at the same time and both returned a result,
\* the counter stands at 2 = N and the batch has returned
C34_Witness ==
    /\ pb.some
    /\ returned
    /\ concurrency > 1
    /\ overtaken
    /\ total_cases = 2
    /\ Produced = Handles
    /\ pb.val = 2

\* a task faulted: the counter ends below N
C34_FaultedBelowN ==
    /\ pb.some
    /\ returned
    /\ Produced # Handles
    /\ pb.val < total_cases

\* the same batch with no progress bar (json output or quiet)
C34_Unobserved ==
    /\ ~pb.some
    /\ returned
    /\ total_cases = 2
    /\ Produced = Handles
    /\ ResultsOfTasks

(***************************************************************************)
(* The assertions that do not use the snapshot directory.                  *)
(***************************************************************************)
NonSnapshotKinds ==
    {"contains", "not-contains", "latency_max", "regex", "json_valid", "min_length",
     "max_length"}

\* no assertion of the list is a snapshot assertion
NoSnapshotAmong(assertions) ==
    \A k \in 1..Len(assertions) : assertions[k].kind \in NonSnapshotKinds

\* a snapshot directory holding a record of text under every key
FsHolding(text) == [EmptyFs EXCEPT !.files = [k \in StoreKeys |-> Some(text)]]

\* other surroundings of a check: another key, a directory with records,
\* update_snapshots set, a file system that fails
Elsewhere ==
    { [key |-> SnapshotKey(TestIdB, 0), fs |-> EmptyFs, update |-> TRUE, fault |-> "none"],
      [key |-> SnapshotKey(TestIdAB, 0), fs |-> FsHolding(<<"a">>), update |-> TRUE,
       fault |-> "write"],
      [key |-> SnapshotKey(TestIdS, 1), fs |-> FsHolding(<<"O", "K">>), update |-> FALSE,
       fault |-> "read"],
      [key |-> SnapshotKey(TestIdS, 0), fs |-> FsHolding(<<>>), update |-> FALSE,
       fault |-> "create_dir"] }

\* the step checked assertions none of which is a snapshot assertion, or was
\* the case of a failed completion
PureStep ==
    \/ evalCall'.kind = "failed"
    \/ evalCall'.kind = "call" /\ NoSnapshotAmong(evalCall'.assertions)

\* C35: the check of an assertion that is not a snapshot assertion leaves
\* the snapshot directory as it was, and its outcome is the one the same
\* assertion, output and latency have with any other key, directory, update
\* flag and fault; a case whose completion failed checks nothing and leaves
\* the directory as it was
C35_PureAssertionsKeepStore ==
    [][ PureStep =>
          /\ snapFs' = snapFs
          /\ evalCall'.kind = "call" =>
                \A e \in Elsewhere :
                    EvaluateAssertions(evalCall'.assertions, evalCall'.output,
                        evalCall'.latency_ms, e.key, e.fs, e.update, e.fault).outcomes
                      = evalCall'.outcomes
          /\ evalCall'.kind = "failed" => evalCall'.outcomes = <<>> ]_vars

\* C35 witness: with a record in the directory, a pattern was matched and
\* the output was found not to be JSON, and the record is as it was
C35_Witness ==
    /\ evalCall.kind = "call"
    /\ snapFs.files[evalCall.key].some
    /\ snapFs.files[evalCall.key] = evalCall.before
    /\ Len(evalCall.assertions) = 2
    /\ evalCall.assertions[1].kind = "regex"
    /\ evalCall.assertions[2].kind = "json_valid"
    /\ evalCall.outcomes[1].passed
    /\ ~evalCall.outcomes[2].passed

\* the output was JSON: an array inside an array
C35_JsonAccepted ==
    /\ evalCall.kind = "call"
    /\ snapFs.files[evalCall.key].some
    /\ Len(evalCall.assertions) = 1
    /\ evalCall.assertions[1].kind = "json_valid"
    /\ evalCall.output = <<"[", "[", "]", "]">>
    /\ evalCall.outcomes[1].passed

\* a completion failed while the directory held a record
C35_FailedCase ==
    /\ evalCall.kind = "failed"
    /\ snapFs.files[evalCall.key].some
    /\ snapFs.files[evalCall.key] = evalCall.before

\* in the run command: the step by which a task returns the result of a
\* failed completion leaves the snapshot directory as it was
C35_FailedCompletionKeepsStoreInRun ==
    [][ \A h \in Handles :
          (tasks[h].pc # "done" /\ tasks'[h].pc = "done" /\ tasks'[h].result.error.some)
             => snapFs' = snapFs ]_vars

\* the regex and JSON checks on known texts
C35_ChecksOnKnownTexts ==
    /\ RegexIsMatch(<<"O", "$">>, <<"O", "K">>) = FALSE
    /\ RegexIsMatch(<<"^", "O">>, <<"O", "K">>)
    /\ RegexIsMatch(<<>>, <<>>)
    /\ RegexIsMatch(<<".">>, <<"\n">>) = FALSE
    /\ IsJsonValue(<<" ", "{", " ", "}", "\n">>)
    /\ IsJsonValue(<<"0", "1">>) = FALSE
    /\ IsJsonValue(<<>>) = FALSE
    /\ IsJsonValue(<<"[", "1", "2", "]">>)

(***************************************************************************)
(* The diagnostic of a failed snapshot comparison.                         *)
(***************************************************************************)
RECURSIVE SplitAtLineFeeds(_)
\* the lines of a text, taken as what stands between its line feeds
SplitAtLineFeeds(s) ==
    LET ends == {i \in 1..Len(s) : s[i] = "\n"}
    IN  IF ends = {} THEN <<s>>
        ELSE LET n == CHOOSE i \in ends : \A j \in ends : i <= j
             IN  <<SubSeq(s, 1, n - 1)>> \o SplitAtLineFeeds(SubSeq(s, n + 1, Len(s)))

\* a line cut to its first 40 characters, marked with the ellipsis if cut
First40Characters(line) ==
    IF Len(line) > 40 THEN SubSeq(line, 1, 40) \o <<Ellipsis>> ELSE line

\* the places where both texts have a line and the two lines differ
DifferingLines(exp_lines, act_lines) ==
    {i \in 1..Len(exp_lines) : i <= Len(act_lines) /\ exp_lines[i] # act_lines[i]}

\* a comparison was made and the trimmed texts were unequal
ComparisonFailed == snapCall.kind = "compare" /\ snapCall.expected # snapCall.actual

\* C36: the diagnostic of a failed comparison names the first line (from 1)
\* at which the trimmed texts differ, with both lines cut to 40 characters,
\* or, when no line that both texts have differs, gives the two line counts,
\* which then differ; there is no third case
C36_FirstDiffOrLineCount ==
    ComparisonFailed =>
        LET exp_lines == SplitAtLineFeeds(snapCall.expected)
            act_lines == SplitAtLineFeeds(snapCall.actual)
            differing == DifferingLines(exp_lines, act_lines)
        IN  /\ ~snapCall.panicked
            /\ \/ /\ differing # {}
                  /\ LET i == CHOOSE i \in differing : \A j \in differing : i <= j
                     IN  snapCall.diff = FirstDiffText(i, First40Characters(exp_lines[i]),
                                                       First40Characters(act_lines[i]))
               \/ /\ differing = {}
                  /\ Len(exp_lines) # Len(act_lines)
                  /\ snapCall.diff = LineCountText(Len(exp_lines), Len(act_lines))

\* a line of more than 40 bytes whose 40th byte is not the last of a character
CutInsideCharacter(line) == ByteLen(line) > TruncateMax /\ ~IsCharBoundary(line, TruncateMax)

\* what the code does in a failed comparison: with the lines taken as
\* str::lines gives them, it names the first differing pair, cut at 40 bytes,
\* and panics when that cut falls inside a character; else it gives the line
\* counts when they differ; else, the texts differing in carriage returns
\* only, it says "Content differs"
C36_DiagnosticAsCoded ==
    ComparisonFailed =>
        LET exp_lines == Lines(snapCall.expected)
            act_lines == Lines(snapCall.actual)
            differing == DifferingLines(exp_lines, act_lines)
        IN  IF differing # {}
            THEN LET i == CHOOSE i \in differing : \A j \in differing : i <= j
                 IN  /\ snapCall.panicked
                          <=> CutInsideCharacter(exp_lines[i]) \/ CutInsideCharacter(act_lines[i])
                     /\ ~snapCall.panicked =>
                          snapCall.diff = FirstDiffText(i, truncate(exp_lines[i], TruncateMax).text,
                                                           truncate(act_lines[i], TruncateMax).text)
            ELSE /\ ~snapCall.panicked
                 /\ snapCall.diff = IF Len(exp_lines) # Len(act_lines)
                                    THEN LineCountText(Len(exp_lines), Len(act_lines))
                                    ELSE ContentDiffersText

\* the comparison panicked: a two-byte character lies across byte 40 of the
\* stored line
C36_TruncatePanics ==
    /\ ComparisonFailed
    /\ snapCall.panicked
    /\ snapCall.expected = Repeat("a", 39) \o <<"é", "a">>
    /\ snapCall.actual = <<"b">>

\* a line of 21 characters was cut to 20
C36_ShortLineCut ==
    /\ ComparisonFailed
    /\ ~snapCall.panicked
    /\ snapCall.expected = Repeat("é", 21)
    /\ snapCall.actual = <<"b">>
    /\ snapCall.diff = FirstDiffText(1, Repeat("é", 20) \o <<Ellipsis>>, <<"b">>)

\* texts that differ in a carriage return only
C36_ContentDiffers ==
    /\ ComparisonFailed
    /\ snapCall.expected = <<"a", "\r", "\n", "b">>
    /\ snapCall.actual = <<"a", "\n", "b">>
    /\ snapCall.diff = ContentDiffersText

\* the two cases of the claim, as they do happen: a second line that
\* differs, a line of 41 characters cut to 40, and a missing line
C36_FirstDiffNamed ==
    /\ ComparisonFailed
    /\ snapCall.expected = <<"a", "\n">> \o Repeat("a", 41)
    /\ snapCall.actual = <<"a", "\n", "b">>
    /\ snapCall.diff = FirstDiffText(2, Repeat("a", 40) \o <<Ellipsis>>, <<"b">>)

C36_LineCountGiven ==
    /\ ComparisonFailed
    /\ snapCall.expected = <<"a", "\n", "b", "\n", "c">>
    /\ snapCall.actual = <<"a", "\n", "b">>
    /\ snapCall.diff = LineCountText(3, 2)

(***************************************************************************)
(* The average latency of the report.                                      *)
(***************************************************************************)
RECURSIVE LatencyOfFirst(_)
\* the latencies of the first k results, added up
LatencyOfFirst(k) == IF k = 0 THEN 0 ELSE LatencyOfFirst(k - 1) + results[k].latency_ms

\* C37: the average latency of a report is the sum of the results' latencies
\* divided by their number and rounded down (a * n <= sum < (a + 1) * n), and
\* 0 for an empty list of results
C37_AverageLatencyIsFloor ==
    main.avg_latency.some =>
        LET n == Len(results)
            sum == LatencyOfFirst(n)
            a == main.avg_latency.val
        IN  IF n = 0 THEN a = 0
            ELSE a * n <= sum /\ sum < (a + 1) * n

\* C37 witness: three results, two of latency 1 and 3 and one of 30000: the
\* sum, 30004, divided by 3 leaves a remainder and the average is 10001
C37_Witness ==
    /\ main.avg_latency.some
    /\ Len(results) = 3
    /\ LatencyOfFirst(3) = 30004
    /\ main.avg_latency.val = 10001

\* a report of no results has the average 0
C37_EmptyReport ==
    /\ main.avg_latency.some
    /\ Len(results) = 0
    /\ main.avg_latency.val = 0

(***************************************************************************)
(* The measured latency of a case.                                         *)
(***************************************************************************)
RECURSIVE SumOfBackoffs(_)
\* the first r backoff delays, added up
SumOfBackoffs(r) == IF r = 0 THEN 0 ELSE SumOfBackoffs(r - 1) + BackoffDelay(r)

\* the outcome of a latency bound of max_ms on a latency of latency_ms
LatencyOutcome(max_ms, latency_ms) ==
    [label |-> "latency_max", passed |-> latency_ms <= max_ms,
     detail |-> "actual: " \o ToString(latency_ms) \o "ms"]

C38_TwoBackoffsOverBound ==
    /\ total_cases = 2
    /\ tasks[1].pc = "done"
    /\ tasks[1].result.output.some
    /\ tasks[1].result.retries = 2
    /\ tasks[1].result.latency_ms = 1500
    /\ ~tasks[1].result.passed

\* a failed case has its latency too: three retries, 3500 ms
C38_FailedCaseLatency ==
    /\ total_cases = 2
    /\ tasks[1].pc = "done"
    /\ tasks[1].result.error.some
    /\ tasks[1].result.retries = 3
    /\ tasks[1].result.latency_ms = 3500

(***************************************************************************)
(* Watch mode.                                                             *)
(***************************************************************************)
\* the step starts a cycle
StartsCycle == main'.running > main.running

\* the step receives a change event from the channel
ReceivesEvent ==
    /\ main.queue # <<>>
    /\ Head(main.queue) = "event"
    /\ main'.queue = Tail(main.queue)

FailedOutcomes == {"load_error", "issues", "provider_error", "failed_cases"}

\* C39: in watch mode a cycle starts only when none is under way; a change
\* event received less than 500 ms after the start of the last triggered
\* cycle starts none; and the return of a cycle, failed or not, leaves the
\* loop running: after the initial run comes the watcher's setup, after a
\* triggered one the next rx.recv()
C39_CyclesInTurnDebouncedLoopKept ==
    [][ /\ StartsCycle => main.running = 0 /\ main'.running = 1
        /\ (ReceivesEvent /\ main.triggered /\ main.sinceLast < 500) => ~StartsCycle
        /\ (main.pc = "cycle" /\ main'.pc # "cycle") =>
               /\ main'.pc = (IF main.initial THEN "setup" ELSE "recv")
               /\ main'.error = None
        /\ main.pc = "recv" => main'.pc \in {"recv", "cycle"} ]_vars

\* C39 witness: a triggered cycle is under way, after a cycle that failed and
\* after a change event that came too early was passed over, and the next
\* event waits in the channel
C39_Witness ==
    /\ main.pc = "cycle"
    /\ ~main.initial
    /\ main.triggered
    /\ main.debounced
    /\ main.running = 1
    /\ main.outcome \in FailedOutcomes
    /\ main.queue # <<>>

\* each way a cycle fails, with the loop back in rx.recv() after it
C39_EveryFailureReturns ==
    [][ main'.outcome # main.outcome => main'.pc \in {"setup", "recv"} ]_vars

C39_LoopAfterLoadError == main.pc = "recv" /\ main.triggered /\ main.outcome = "load_error"
C39_LoopAfterIssues == main.pc = "recv" /\ main.triggered /\ main.outcome = "issues"
C39_LoopAfterProviderError ==
    main.pc = "recv" /\ main.triggered /\ main.outcome = "provider_error"
C39_LoopAfterFailedCases == main.pc = "recv" /\ main.triggered /\ main.outcome = "failed_cases"

=============================================================================
